---- MODULE Spec2Model ----
(***************************************************************************)
(* Model of the invoice manager: the normalisation and validation         *)
(* functions (core/utils.py), the value field and the validation of the    *)
(* invoice form (gui/modules/add_invoice.py, gui/modules/edit_invoice.py), *)
(* the tables of invoices and customers (core/database.py) and the edit    *)
(* mode of the two forms (gui/modules/main_menu.py,                        *)
(* gui/modules/cadastro_cliente.py).                                       *)
(*                                                                         *)
(* A Python str is a sequence of one-character strings.  A Python float    *)
(* produced from a decimal literal is the exact decimal m / 10^e; an       *)
(* amount rounded to two places is an integer number of cents.  The short  *)
(* literals of the model have at most 10 significant digits, far inside    *)
(* the 15 a double holds, so the binary representation shows in two        *)
(* places only: a rounding tie (see RoundCents) and a text too long for a  *)
(* double, which is inf (see PyFloat).                                     *)
(***************************************************************************)
EXTENDS Integers, Sequences, FiniteSets, TLC

VARIABLES
    entrada,    \* the argument handed to the function under call
    tie,        \* whether the double nearest to an inexact tie lies above it
    pc,         \* the last operation applied
    ret,        \* what that operation returned
    valor_var,  \* variables["valor_var"]: the text of the value field
    nota,       \* the valor column of the stored invoice (notas.valor)
    pad_ano,    \* whether the platform's strftime pads %Y to four digits
    notas,      \* the table notas: its rows and the AUTOINCREMENT sequence
    clientes,   \* the table clientes: its rows and the AUTOINCREMENT sequence
    main_menu,  \* MainMenu: edit_mode, editing_id, table_manager.selected_ids
    cadastro    \* CadastroCliente: modo_edicao, editando_id, selected_ids

vars == <<entrada, tie, pc, ret, valor_var, nota, pad_ano, notas, clientes, main_menu, cadastro>>

(***************************************************************************)
(* The tables as _create_tables leaves them, and the two forms as their    *)
(* constructors leave them.  An id is 1 or more; None, as the id of the    *)
(* record under edit, is SemId.                                            *)
(***************************************************************************)
TabelaVazia == [linhas |-> {}, seq |-> 0]

SemId == 0

MainMenuInicial == [edit_mode |-> FALSE, editing_id |-> SemId, selected_ids |-> {}]

CadastroInicial == [modo_edicao |-> FALSE, editando_id |-> SemId, selected_ids |-> {}]

\* no table and no form takes part
SemBanco ==
    /\ notas = TabelaVazia
    /\ clientes = TabelaVazia
    /\ main_menu = MainMenuInicial
    /\ cadastro = CadastroInicial

(***************************************************************************)
(* Bounds of the model.                                                    *)
(***************************************************************************)
MaxLen == 4      \* longest enumerated input string
MaxCents == 120  \* numeric inputs 0.00 .. MaxCents / 100 are all enumerated

(***************************************************************************)
(* Characters and strings.                                                 *)
(***************************************************************************)
DigitChars == <<"0", "1", "2", "3", "4", "5", "6", "7", "8", "9">>

Digits == {DigitChars[i] : i \in 1..10}

DigitVal(c) == (CHOOSE i \in 1..10 : DigitChars[i] = c) - 1

\* The characters the enumerated strings are built from: two digits, the
\* two separators and one character that is none of these.
Alphabet == {"0", "5", ",", ".", "R"}

RECURSIVE StringsUpTo(_)
StringsUpTo(n) ==
    IF n = 0 THEN {<<>>}
    ELSE LET shorter == StringsUpTo(n - 1)
         IN shorter \cup {Append(s, c) : s \in {t \in shorter : Len(t) = n - 1}, c \in Alphabet}

Contains(s, c) == \E i \in DOMAIN s : s[i] = c

CountChar(s, c) == Cardinality({i \in DOMAIN s : s[i] = c})

\* str.replace(a, b) for one-character a and b, and str.replace(a, "")
ReplaceChar(s, a, b) == [i \in DOMAIN s |-> IF s[i] = a THEN b ELSE s[i]]

RemoveChar(s, a) == SelectSeq(s, LAMBDA c : c # a)

\* str.split(sep) for a one-character sep
RECURSIVE Split(_, _)
Split(s, sep) ==
    IF ~Contains(s, sep) THEN <<s>>
    ELSE LET k == CHOOSE i \in DOMAIN s : s[i] = sep /\ \A j \in 1..(i - 1) : s[j] # sep
         IN <<SubSeq(s, 1, k - 1)>> \o Split(SubSeq(s, k + 1, Len(s)), sep)

\* str.strip(): leading and trailing whitespace removed
RECURSIVE Strip(_)
Strip(s) ==
    IF s = <<>> THEN s
    ELSE IF Head(s) = " " THEN Strip(Tail(s))
    ELSE IF s[Len(s)] = " " THEN Strip(SubSeq(s, 1, Len(s) - 1))
    ELSE s

\* re.sub(r"[^\d,.]", "", s)
Limpar(s) == SelectSeq(s, LAMBDA c : c \in Digits \cup {",", "."})

(***************************************************************************)
(* Numbers.                                                                *)
(***************************************************************************)
RECURSIVE Pow(_, _)
Pow(b, n) == IF n = 0 THEN 1 ELSE b * Pow(b, n - 1)

RECURSIVE IntOfDigits(_)
IntOfDigits(s) ==
    IF s = <<>> THEN 0
    ELSE 10 * IntOfDigits(SubSeq(s, 1, Len(s) - 1)) + DigitVal(s[Len(s)])

RECURSIVE IntToStr(_)
IntToStr(n) ==
    IF n < 10 THEN <<DigitChars[n + 1]>>
    ELSE Append(IntToStr(n \div 10), DigitChars[(n % 10) + 1])

RECURSIVE SemZerosAEsquerda(_)
SemZerosAEsquerda(s) ==
    IF s # <<>> /\ Head(s) = "0" THEN SemZerosAEsquerda(Tail(s)) ELSE s

\* the integer digits spell a number above the largest double, which is
\* 1.797...e308 and has 309 digits (a text of 309 digits is compared by its
\* first four)
ForaDoDouble(digitos) ==
    LET d == SemZerosAEsquerda(digitos)
    IN Len(d) > 309 \/ (Len(d) = 309 /\ IntOfDigits(SubSeq(d, 1, 4)) >= 1798)

\* float(s) for s made of digits and dots: the decimal m / 10^e, or
\* ValueError when s is not digits, optionally with one dot, holding at
\* least one digit; inf, and no error, when the number is above the
\* largest double.
PyFloat(s) ==
    IF CountChar(s, ".") > 1 \/ RemoveChar(s, ".") = <<>> \/ Contains(s, ",")
    THEN [exc |-> "ValueError", m |-> 0, e |-> 0, inf |-> FALSE]
    ELSE LET partes == Split(s, ".")
             e == IF Len(partes) = 2 THEN Len(partes[2]) ELSE 0
         IN IF ForaDoDouble(partes[1])
            THEN [exc |-> "", m |-> 0, e |-> 0, inf |-> TRUE]
            ELSE [exc |-> "", m |-> IntOfDigits(RemoveChar(s, ".")), e |-> e, inf |-> FALSE]

\* round(m / 10^e, 2) and the rounding of the format "{:.2f}", in cents.
\* Both round the exact binary value of the double to the nearest cent.
\* A decimal tie (the dropped digits are 5000...) is an exact tie only when
\* m / 10^e is a binary fraction, that is when 5^e divides m, and then the
\* even cent is taken; otherwise the double lies on one side of the tie and
\* the side is the variable tie.
RoundCents(m, e) ==
    IF e <= 2 THEN m * Pow(10, 2 - e)
    ELSE LET d == Pow(10, e - 2)
             q == m \div d
             r == m % d
             half == 5 * Pow(10, e - 3)
         IN IF r < half THEN q
            ELSE IF r > half THEN q + 1
            ELSE IF m % Pow(5, e) = 0 THEN (IF q % 2 = 0 THEN q ELSE q + 1)
            ELSE IF tie THEN q + 1 ELSE q

\* float.is_integer()
IsInteger(m, e) == m % Pow(10, e) = 0

\* format(n, ",") for an int n >= 0: groups of three digits joined by ","
RECURSIVE GroupComma(_)
GroupComma(n) ==
    IF n < 1000 THEN IntToStr(n)
    ELSE LET r == n % 1000
             d == IntToStr(r)
             pad == IF r < 10 THEN <<"0", "0">> ELSE IF r < 100 THEN <<"0">> ELSE <<>>
         IN GroupComma(n \div 1000) \o <<",">> \o pad \o d

\* format(x, ",.2f") for x = m / 10^e >= 0
FormatComma2f(m, e) ==
    LET c == RoundCents(m, e)
        f == c % 100
    IN GroupComma(c \div 100) \o <<".">> \o <<DigitChars[(f \div 10) + 1], DigitChars[(f % 10) + 1]>>

(***************************************************************************)
(* Arguments: a str, an int, a float (the decimal m / 10^e with its sign)  *)
(* or None.                                                                *)
(***************************************************************************)
StrArg(s) == [tipo |-> "str", s |-> s, neg |-> FALSE, m |-> 0, e |-> 0]

IntArg(neg, n) == [tipo |-> "int", s |-> <<>>, neg |-> neg, m |-> n, e |-> 0]

\* an int too long for m: s holds its digits
IntGrande(digitos) == [tipo |-> "int", s |-> digitos, neg |-> FALSE, m |-> 0, e |-> 0]

FloatArg(neg, m, e) == [tipo |-> "float", s |-> <<>>, neg |-> neg, m |-> m, e |-> e]

NoneArg == [tipo |-> "none", s |-> <<>>, neg |-> FALSE, m |-> 0, e |-> 0]

\* isinstance(valor, (int, float))
IsNumber(valor) == valor.tipo \in {"int", "float"}

\* str(valor).  repr of a float in 1e-4 <= |x| < 1e16 (or 0): the integer
\* part, a dot and the fractional digits without trailing zeros, at least one.
RECURSIVE StripZeros(_)
StripZeros(f) ==
    IF Len(f) > 1 /\ f[Len(f)] = "0" THEN StripZeros(SubSeq(f, 1, Len(f) - 1)) ELSE f

FracDigits(r, e) ==
    LET d == IntToStr(r)
    IN [i \in 1..(e - Len(d)) |-> "0"] \o d

PyStr(valor) ==
    LET sinal == IF valor.neg /\ (valor.m # 0 \/ valor.tipo = "float") THEN <<"-">> ELSE <<>>
    IN CASE valor.tipo = "str" -> valor.s
         [] valor.tipo = "none" -> <<"N", "o", "n", "e">>
         [] valor.tipo = "int" -> IF valor.s # <<>> THEN valor.s ELSE sinal \o IntToStr(valor.m)
         [] valor.tipo = "float" ->
              LET d == Pow(10, valor.e)
                  frac == IF valor.e = 0 THEN <<"0">> ELSE StripZeros(FracDigits(valor.m % d, valor.e))
              IN sinal \o IntToStr(valor.m \div d) \o <<".">> \o frac

(***************************************************************************)
(* core/utils.py: the currency functions.  A call returns a record: exc is *)
(* the exception that escapes the call ("" when it returns), c the amount  *)
(* returned in cents, txt the string returned.                             *)
(***************************************************************************)
Returns(c, txt) == [exc |-> "", c |-> c, txt |-> txt, inf |-> FALSE]

Raises(exc) == [exc |-> exc, c |-> 0, txt |-> <<>>, inf |-> FALSE]

\* the float inf returned: no amount in cents
Infinito == [exc |-> "", c |-> 0, txt |-> <<>>, inf |-> TRUE]

\* the value of a float() call, rounded to two places
RoundFloat(f) ==
    IF f.exc # "" THEN Raises(f.exc)
    ELSE IF f.inf THEN Infinito
    ELSE Returns(RoundCents(f.m, f.e), <<>>)

\* "," and "." both present
ParsePontoEVirgula(valor_limpo) ==
    LET partes == Split(valor_limpo, ",")
    IN IF Len(partes) = 2
       THEN LET inteiro == RemoveChar(partes[1], ".")
                decimal == partes[2]
            IN PyFloat(inteiro \o <<".">> \o decimal)
       ELSE PyFloat(ReplaceChar(RemoveChar(valor_limpo, "."), ",", "."))

ParseSoVirgulaSemMilhar(valor_limpo) == PyFloat(RemoveChar(valor_limpo, ","))

\* only "," present
ParseSoVirgula(valor_limpo) == PyFloat(ReplaceChar(valor_limpo, ",", "."))

\* only "." present
ParseSoPontoSemMilhar(valor_limpo) == PyFloat(valor_limpo)

ParseSoPonto(valor_limpo) ==
    LET partes == Split(valor_limpo, ".")
    IN IF Len(partes) > 2
       THEN PyFloat(RemoveChar(valor_limpo, "."))
       ELSE PyFloat(valor_limpo)

\* the try block of converter_para_decimal
ConverterTry(valor) ==
    IF IsNumber(valor)
    THEN IF ForaDoDouble(valor.s)
         THEN Raises("OverflowError")
         ELSE Returns((IF valor.neg THEN -1 ELSE 1) * RoundCents(valor.m, valor.e), <<>>)
    ELSE LET valor_str == Strip(PyStr(valor))
             valor_limpo == Limpar(valor_str)
         IN IF valor_limpo = <<>> THEN Returns(0, <<>>)
            ELSE IF Contains(valor_limpo, ",") /\ Contains(valor_limpo, ".")
                 THEN RoundFloat(ParsePontoEVirgula(valor_limpo))
            ELSE IF Contains(valor_limpo, ",")
                 THEN RoundFloat(ParseSoVirgula(valor_limpo))
            ELSE IF Contains(valor_limpo, ".")
                 THEN RoundFloat(ParseSoPonto(valor_limpo))
            ELSE RoundFloat(PyFloat(valor_limpo))

ConverterSemExcept(valor) == ConverterTry(valor)

converter_para_decimal(valor) ==
    LET r == ConverterTry(valor)
    IN IF r.exc \in {"ValueError", "TypeError"} THEN Returns(0, <<>>) ELSE r

Simbolo == <<"R", "$", " ">>

ZeroDisplay(com_simbolo) ==
    IF com_simbolo THEN Simbolo \o <<"0", ",", "0", "0">> ELSE <<"0", ",", "0", "0">>

\* the integer branch of the rendering
FormatarInteiroSemCentavos(m, e) == ReplaceChar(GroupComma(m \div Pow(10, e)), ",", ".")

FormatarInteiro(m, e) ==
    LET formatado == ReplaceChar(GroupComma(m \div Pow(10, e)), ",", ".")
    IN formatado \o <<",", "0", "0">>

\* the other branch: "," to "X", "." to ",", "X" to "."
FormatarDecimalTrocaDireta(m, e) ==
    ReplaceChar(ReplaceChar(FormatComma2f(m, e), ",", "."), ".", ",")

FormatarDecimal(m, e) ==
    ReplaceChar(ReplaceChar(ReplaceChar(FormatComma2f(m, e), ",", "X"), ".", ","), "X", ".")

\* the separators of formatar_moeda: with a ",", every "." goes and every
\* "," becomes "."
NormalizarSeparadores(valor_str) ==
    IF Contains(valor_str, ",")
    THEN IF Contains(valor_str, ".")
         THEN ReplaceChar(RemoveChar(valor_str, "."), ",", ".")
         ELSE ReplaceChar(valor_str, ",", ".")
    ELSE valor_str

\* the try block of formatar_moeda
FormatarTry(valor, com_simbolo) ==
    LET valor_str == Limpar(IF IsNumber(valor) THEN PyStr(valor) ELSE Strip(PyStr(valor)))
    IN IF valor_str = <<>> THEN Returns(0, ZeroDisplay(com_simbolo))
       ELSE LET valor_float == PyFloat(NormalizarSeparadores(valor_str))
            IN IF valor_float.exc # "" THEN Raises(valor_float.exc)
               ELSE LET formatado == IF valor_float.inf
                                     THEN <<"i", "n", "f">>
                                     ELSE IF IsInteger(valor_float.m, valor_float.e)
                                     THEN FormatarInteiro(valor_float.m, valor_float.e)
                                     ELSE FormatarDecimal(valor_float.m, valor_float.e)
                    IN Returns(0, IF com_simbolo THEN Simbolo \o formatado ELSE formatado)

FormatarSemExcept(valor, com_simbolo) == FormatarTry(valor, com_simbolo)

formatar_moeda(valor, com_simbolo) ==
    LET r == FormatarTry(valor, com_simbolo)
    IN IF r.exc \in {"ValueError", "TypeError"} THEN Returns(0, ZeroDisplay(com_simbolo)) ELSE r

FormatarDigitacaoIdentidade(valor) == valor

formatar_valor_digitacao(valor) ==
    IF valor # <<>> THEN Limpar(valor) ELSE valor

AplicarFormatacaoComSimbolo(valor) ==
    IF valor # <<>> THEN formatar_moeda(StrArg(valor), TRUE).txt ELSE valor

aplicar_formatacao_valor_final(valor) ==
    IF valor # <<>> THEN formatar_moeda(StrArg(valor), FALSE).txt ELSE valor

(***************************************************************************)
(* core/utils.py: validar_moeda.  The pattern                              *)
(*   ^R?\$?\s*(\d{1,3}(?:\.?\d{3})*(?:[,.]\d{1,2})?|\d+([,.]\d{1,2})?)$    *)
(* is matched against the stripped text.                                   *)
(***************************************************************************)
PyTrue == <<"T", "r", "u", "e">>

PyFalse == <<"F", "a", "l", "s", "e">>

PyNone == <<"N", "o", "n", "e">>

RetBool(b) == Returns(0, IF b THEN PyTrue ELSE PyFalse)

IsDigits(s) == \A i \in DOMAIN s : s[i] \in Digits

\* R?\$?\s* : what is left of s after the prefix
RECURSIVE SkipSpaces(_)
SkipSpaces(s) == IF s # <<>> /\ Head(s) = " " THEN SkipSpaces(Tail(s)) ELSE s

SkipSimbolo(s) ==
    LET s1 == IF s # <<>> /\ Head(s) = "R" THEN Tail(s) ELSE s
        s2 == IF s1 # <<>> /\ Head(s1) = "$" THEN Tail(s1) ELSE s1
    IN SkipSpaces(s2)

\* (?:\.?\d{3})*
RECURSIVE MatchGrupos(_)
MatchGrupos(s) ==
    \/ s = <<>>
    \/ /\ Len(s) >= 4
       /\ s[1] = "."
       /\ IsDigits(SubSeq(s, 2, 4))
       /\ MatchGrupos(SubSeq(s, 5, Len(s)))
    \/ /\ Len(s) >= 3
       /\ IsDigits(SubSeq(s, 1, 3))
       /\ MatchGrupos(SubSeq(s, 4, Len(s)))

\* \d{1,3}(?:\.?\d{3})*
MatchMilhares(s) ==
    \E k \in 1..3 :
        /\ k <= Len(s)
        /\ IsDigits(SubSeq(s, 1, k))
        /\ MatchGrupos(SubSeq(s, k + 1, Len(s)))

\* \d+
MatchInteiro(s) == s # <<>> /\ IsDigits(s)

\* (?:[,.]\d{1,2})? : the lengths of the suffix of s it can match
SufixosDecimais(s) ==
    {0} \cup {n \in {2, 3} : /\ n <= Len(s)
                             /\ s[Len(s) - n + 1] \in {",", "."}
                             /\ IsDigits(SubSeq(s, Len(s) - n + 2, Len(s)))}

MatchPadraoSemMilhares(s) ==
    \E n \in SufixosDecimais(s) : MatchInteiro(SubSeq(s, 1, Len(s) - n))

MatchPadrao(s) ==
    LET corpo == SkipSimbolo(s)
    IN \E n \in SufixosDecimais(corpo) :
           LET inteiro == SubSeq(corpo, 1, Len(corpo) - n)
           IN MatchMilhares(inteiro) \/ MatchInteiro(inteiro)

validar_moeda(valor) ==
    IF valor = <<>> THEN FALSE ELSE MatchPadrao(Strip(valor))

(***************************************************************************)
(* The inputs.  Strings: every string of at most MaxLen characters of the  *)
(* alphabet, and the examples of the specification.  Numbers: every float  *)
(* amount of 0 to MaxCents cents with either sign, small ints, floats with *)
(* three decimals, and the amounts named by the specification.             *)
(***************************************************************************)
Exemplos == {
    <<"1", ".", "2", "3", "4", ",", "5", "6">>,
    <<"1", "2", "3", "4", ",", "5", "6">>,
    <<"1", "2", "3", "4", ".", "5", "6">>,
    <<"1", ".", "2", "3", "4">>,
    <<"1", "2", "3", "4">>,
    <<"1", ".", "2", "3", "4", ".", "5", "6", "7">>,
    <<"R", "$">>,
    <<"a", "b", "c">>,
    <<"R", "$", " ", "1", ".", "2", "3", "4", ",", "5", "6">>,
    <<" ", "9", ",", "9", "9", " ">>,
    <<"9", ",", "9", "9", "9">>,
    <<"9", "9", "9", ",", "9", "9", "5">>,
    <<"1", ",", "2", ".", "3">>,
    <<"1", ".", "2", ".", "3", ",", "4">>,
    <<"1", ",", "2", ",", "3", ".", "4">>,
    <<"1", ",", "0", "0", "0", ",", "0", "0", "0">>,
    <<"-", "5">>,
    <<"1", ",", "2", "3", "4", ".", "5", "6">>}

StrInputs == {StrArg(s) : s \in StringsUpTo(MaxLen) \cup Exemplos}

NumInputs ==
    {FloatArg(neg, m, 2) : neg \in BOOLEAN, m \in 0..MaxCents}
    \cup {IntArg(neg, n) : neg \in BOOLEAN, n \in 0..(MaxCents \div 10)}
    \cup {FloatArg(FALSE, m, 3) : m \in {5, 125, 375, 1005, 1234, 2675}}
    \cup {FloatArg(FALSE, 999, 2), FloatArg(FALSE, 100000, 2), FloatArg(FALSE, 123456789, 2),
          FloatArg(FALSE, 99999, 2), FloatArg(FALSE, 10005, 1), IntArg(FALSE, 1000),
          IntArg(FALSE, 1234567)}

Entradas == StrInputs \cup NumInputs \cup {NoneArg}

\* An amount as the store holds it: a float, not negative, with at most two
\* fractional digits.  Cents is its value.
Canonical(valor) == IsNumber(valor) /\ ~valor.neg /\ valor.e <= 2

Cents(valor) == valor.m * Pow(10, 2 - valor.e)

NoRet == Returns(0, <<>>)

NoNota == [existe |-> FALSE, valor |-> 0]

(***************************************************************************)
(* Init: one input is drawn.  A float input that is a canonical amount     *)
(* above zero is also the valor of the invoice the store holds; the field  *)
(* of the form is empty.                                                   *)
(***************************************************************************)
Init ==
    /\ SemBanco
    /\ entrada \in Entradas
    /\ tie \in BOOLEAN
    /\ pc = "init"
    /\ ret = NoRet
    /\ valor_var = <<>>
    /\ pad_ano = TRUE
    /\ nota = IF entrada.tipo = "float" /\ Canonical(entrada) /\ entrada.m > 0
              THEN [existe |-> TRUE, valor |-> Cents(entrada)]
              ELSE NoNota

\* converter_para_decimal(entrada)
ConverterParaDecimal ==
    /\ pc = "init"
    /\ ret' = converter_para_decimal(entrada)
    /\ pc' = "converter"
    /\ UNCHANGED <<notas, clientes, main_menu, cadastro, entrada, tie, pad_ano, valor_var, nota>>

\* formatar_moeda(entrada, com_simbolo)
FormatarMoeda(com_simbolo) ==
    /\ pc = "init"
    /\ ret' = formatar_moeda(entrada, com_simbolo)
    /\ pc' = IF com_simbolo THEN "formatar_simbolo" ELSE "formatar"
    /\ UNCHANGED <<notas, clientes, main_menu, cadastro, entrada, tie, pad_ano, valor_var, nota>>

\* converter_para_decimal applied to what formatar_moeda(entrada, False)
\* returned; txt keeps the string that was parsed
Reconverter ==
    /\ pc = "formatar"
    /\ ret.exc = ""
    /\ LET r == converter_para_decimal(StrArg(ret.txt))
       IN ret' = [r EXCEPT !.txt = ret.txt]
    /\ pc' = "reconverter"
    /\ UNCHANGED <<notas, clientes, main_menu, cadastro, entrada, tie, pad_ano, valor_var, nota>>

\* formatar_valor_digitacao(entrada)
FormatarValorDigitacao ==
    /\ pc = "init"
    /\ entrada.tipo = "str"
    /\ ret' = Returns(0, formatar_valor_digitacao(entrada.s))
    /\ pc' = "digitacao"
    /\ UNCHANGED <<notas, clientes, main_menu, cadastro, entrada, tie, pad_ano, valor_var, nota>>

\* the user types the input into the value field
Digitar ==
    /\ pc = "init"
    /\ entrada.tipo = "str"
    /\ valor_var' = entrada.s
    /\ pc' = "digitar"
    /\ UNCHANGED <<notas, clientes, main_menu, cadastro, entrada, tie, pad_ano, ret, nota>>

\* AddInvoiceManager.formatar_valor_wrapper, bound to the key release
FormatarValorWrapper ==
    /\ pc = "digitar"
    /\ LET current == valor_var
       IN IF current # <<>>
          THEN LET clean == formatar_valor_digitacao(current)
               IN valor_var' = IF current # clean THEN clean ELSE valor_var
          ELSE valor_var' = valor_var
    /\ pc' = "wrapper"
    /\ UNCHANGED <<notas, clientes, main_menu, cadastro, entrada, tie, pad_ano, ret, nota>>

\* EditInvoiceManager.carregar_nota_para_edicao: the value field
CarregarNotaParaEdicao ==
    /\ pc = "init"
    /\ nota.existe
    /\ LET r == formatar_moeda(FloatArg(FALSE, nota.valor, 2), FALSE)
       IN valor_var' = IF r.exc = "" THEN r.txt ELSE PyStr(FloatArg(FALSE, nota.valor, 2))
    /\ pc' = "carregar"
    /\ UNCHANGED <<notas, clientes, main_menu, cadastro, entrada, tie, pad_ano, ret, nota>>

\* EditInvoiceManager.atualizar_nota_existente: the valor column
AtualizarNotaExistente ==
    /\ pc = "carregar"
    /\ nota.existe
    /\ LET valor_decimal == converter_para_decimal(StrArg(valor_var))
       IN IF valor_decimal.exc = ""
          THEN /\ nota' = [nota EXCEPT !.valor = valor_decimal.c]
               /\ ret' = Returns(0, <<"T", "r", "u", "e">>)
          ELSE /\ nota' = nota
               /\ ret' = Returns(0, <<"F", "a", "l", "s", "e">>)
    /\ pc' = "atualizar"
    /\ UNCHANGED <<notas, clientes, main_menu, cadastro, entrada, tie, pad_ano, valor_var>>

\* aplicar_formatacao_valor_final(entrada)
AplicarFormatacaoValorFinal ==
    /\ pc = "init"
    /\ entrada.tipo = "str"
    /\ ret' = Returns(0, aplicar_formatacao_valor_final(entrada.s))
    /\ pc' = "final"
    /\ UNCHANGED <<notas, clientes, main_menu, cadastro, entrada, tie, pad_ano, valor_var, nota>>

\* AddInvoiceManager.aplicar_formatacao_valor_wrapper, bound to the loss of
\* focus of the value field
AplicarFormatacaoValorWrapper ==
    /\ pc = "digitar"
    /\ LET current == valor_var
       IN valor_var' = IF current # <<>>
                       THEN aplicar_formatacao_valor_final(current)
                       ELSE valor_var
    /\ pc' = "foco"
    /\ UNCHANGED <<notas, clientes, main_menu, cadastro, entrada, tie, pad_ano, ret, nota>>

\* validar_moeda applied to the formatted value field
ValidarMoeda ==
    /\ pc = "foco"
    /\ ret' = RetBool(validar_moeda(valor_var))
    /\ pc' = "validar_moeda"
    /\ UNCHANGED <<notas, clientes, main_menu, cadastro, entrada, tie, pad_ano, valor_var, nota>>

\* converter_para_decimal applied to the formatted value field
ConverterValor ==
    /\ pc = "foco"
    /\ ret' = converter_para_decimal(StrArg(valor_var))
    /\ pc' = "converter_valor"
    /\ UNCHANGED <<notas, clientes, main_menu, cadastro, entrada, tie, pad_ano, valor_var, nota>>

\* AddInvoiceManager.aplicar_formatacao_valor_wrapper, the value field
\* losing the focus once more
AplicarFormatacaoDeNovo ==
    /\ pc = "foco"
    /\ LET current == valor_var
       IN valor_var' = IF current # <<>>
                       THEN aplicar_formatacao_valor_final(current)
                       ELSE valor_var
    /\ pc' = "foco_de_novo"
    /\ UNCHANGED <<notas, clientes, main_menu, cadastro, entrada, tie, pad_ano, ret, nota>>

Next ==
    \/ ConverterParaDecimal
    \/ \E com_simbolo \in BOOLEAN : FormatarMoeda(com_simbolo)
    \/ Reconverter
    \/ FormatarValorDigitacao
    \/ Digitar
    \/ FormatarValorWrapper
    \/ CarregarNotaParaEdicao
    \/ AtualizarNotaExistente
    \/ AplicarFormatacaoValorFinal
    \/ AplicarFormatacaoValorWrapper
    \/ ValidarMoeda
    \/ ConverterValor
    \/ AplicarFormatacaoDeNovo

Spec == Init /\ [][Next]_vars

(***************************************************************************)
(* The same functions at the end of the double range: a text of 310        *)
(* digits, alone, after the symbol and before a decimal part, the int of   *)
(* the same digits, and short texts and a stored amount beside them.       *)
(***************************************************************************)
ValorGrande == [i \in 1..310 |-> "9"]

EntradasLimite ==
    {StrArg(ValorGrande), StrArg(Simbolo \o ValorGrande), StrArg(ValorGrande \o <<",", "5">>),
     IntGrande(ValorGrande), FloatArg(FALSE, 123456789, 2)}
    \cup {StrArg(s) : s \in StringsUpTo(2)}

InitLimite ==
    /\ SemBanco
    /\ entrada \in EntradasLimite
    /\ tie \in BOOLEAN
    /\ pc = "init"
    /\ ret = NoRet
    /\ valor_var = <<>>
    /\ pad_ano = TRUE
    /\ nota = IF entrada.tipo = "float" /\ Canonical(entrada) /\ entrada.m > 0
              THEN [existe |-> TRUE, valor |-> Cents(entrada)]
              ELSE NoNota

SpecLimite == InitLimite /\ [][Next]_vars

(***************************************************************************)
(* Vocabulary of the properties, stated on the text the user sees and not  *)
(* on the steps of the functions.                                          *)
(***************************************************************************)
\* the text of a non-numeric input, with only digits, "," and "." kept
Cleaned(valor) == SelectSeq(PyStr(valor), LAMBDA ch : ch \in Digits \cup {",", "."})

DigitsOf(s) == SelectSeq(s, LAMBDA ch : ch \in Digits)

AllDigits(s) == \A i \in DOMAIN s : s[i] \in Digits

\* the amount, in cents, that whole[,frac] denotes when frac has at most
\* two digits
CentsOfParts(whole, frac) ==
    100 * IntOfDigits(whole) + IntOfDigits(frac) * (IF Len(frac) = 1 THEN 10 ELSE 1)

\* digits in groups of three joined by ".", the first group of 1 to 3 digits
Grouped(s) ==
    /\ Len(s) >= 1
    /\ \A i \in DOMAIN s :
          IF (Len(s) - i) % 4 = 3 THEN s[i] = "." /\ i > 1 ELSE s[i] \in Digits

\* the shape 1.234.567,89
DisplayShape(s) ==
    /\ Len(s) >= 4
    /\ s[Len(s) - 2] = ","
    /\ s[Len(s) - 1] \in Digits
    /\ s[Len(s)] \in Digits
    /\ Grouped(SubSeq(s, 1, Len(s) - 3))

StartsWithSymbol(s) == Len(s) >= 3 /\ SubSeq(s, 1, 3) = <<"R", "$", " ">>

\* C1: converter_para_decimal never raises: every call returns a value, and
\* the value is 0.00 when the input is a text without any digit (the empty
\* string, "abc", "R$") or None.
C1_NuncaLevanta ==
    pc = "converter" =>
        /\ ret.exc = ""
        /\ (~IsNumber(entrada) /\ DigitsOf(PyStr(entrada)) = <<>> => ret.c = 0)

C1_Witness ==
    /\ pc = "converter"
    /\ entrada \in {NoneArg, StrArg(<<"R", "$">>), StrArg(<<",">>)}
    /\ ret.c = 0

C3_PontoUnico ==
    pc = "converter" /\ entrada.tipo = "str" =>
        LET limpo == Cleaned(entrada)
            partes == Split(limpo, ".")
        IN (~Contains(limpo, ",") /\ Len(partes) = 2 /\ partes[1] # <<>>) =>
               /\ (Len(partes[2]) = 3 => ret.c = 100 * IntOfDigits(partes[1] \o partes[2]))
               /\ (Len(partes[2]) \in {1, 2} => ret.c = CentsOfParts(partes[1], partes[2]))

\* C4: with exactly one "," in the cleaned input, the comma is the decimal
\* separator and every "." is removed before parsing, wherever it stands.
C4_VirgulaUnica ==
    pc = "converter" /\ entrada.tipo = "str" =>
        LET limpo == Cleaned(entrada)
            partes == Split(RemoveChar(limpo, "."), ",")
        IN (CountChar(limpo, ",") = 1 /\ DigitsOf(limpo) # <<>>) =>
               ret.c = RoundCents(IntOfDigits(partes[1] \o partes[2]), Len(partes[2]))

\* C5: with more than one "." and no "," in the cleaned input, every dot is
\* stripped and the digits left are parsed as an integer amount.
C5_VariosPontos ==
    pc = "converter" /\ entrada.tipo = "str" =>
        LET limpo == Cleaned(entrada)
        IN (~Contains(limpo, ",") /\ CountChar(limpo, ".") > 1) =>
               /\ ret.exc = ""
               /\ ret.c = 100 * IntOfDigits(DigitsOf(limpo))

C5_Witness ==
    /\ pc = "converter"
    /\ entrada = StrArg(<<"1", ".", "2", "3", "4", ".", "5", "6", "7">>)
    /\ ret.c = 123456700

\* C6: the amount converter_para_decimal returns is never negative, for a
\* string and for an input that is already a number.
C6_NaoNegativo == pc = "converter" => ret.c >= 0

\* C7: formatar_moeda formats the amount converter_para_decimal parses: for
\* every string x, converter_para_decimal(formatar_moeda(x, False)) is
\* converter_para_decimal(x).
C7_MesmaHeuristica ==
    pc = "reconverter" /\ entrada.tipo = "str" => ret.c = converter_para_decimal(entrada).c

\* C8: the string formatar_moeda returns is digits in groups of three
\* joined by ".", then "," and two digits, after "R$ " exactly when
\* com_simbolo is true.
C8_Forma ==
    /\ (pc = "formatar" => ret.exc = "" /\ DisplayShape(ret.txt))
    /\ (pc = "formatar_simbolo" =>
            /\ ret.exc = ""
            /\ StartsWithSymbol(ret.txt)
            /\ DisplayShape(SubSeq(ret.txt, 4, Len(ret.txt))))

C8_Witness ==
    /\ pc = "formatar_simbolo"
    /\ entrada = FloatArg(FALSE, 123456789, 2)
    /\ ret.txt = <<"R", "$", " ", "1", ".", "2", "3", "4", ".", "5", "6", "7", ",", "8", "9">>

\* the cleaned text holds no amount: no digit, or several ",", or several
\* "." and no ","
SemValor(valor) ==
    LET limpo == Cleaned(valor)
    IN \/ DigitsOf(limpo) = <<>>
       \/ CountChar(limpo, ",") > 1
       \/ (CountChar(limpo, ",") = 0 /\ CountChar(limpo, ".") > 1)

\* C9: formatar_moeda never raises, and on a malformed input (empty, no
\* digits, not a number after cleaning) it returns "R$ 0,00" with the
\* symbol and "0,00" without.
C9_ZeroNoErro ==
    /\ (pc \in {"formatar", "formatar_simbolo"} => ret.exc = "")
    /\ (pc = "formatar" /\ ~IsNumber(entrada) /\ SemValor(entrada) =>
            ret.txt = <<"0", ",", "0", "0">>)
    /\ (pc = "formatar_simbolo" /\ ~IsNumber(entrada) /\ SemValor(entrada) =>
            ret.txt = <<"R", "$", " ", "0", ",", "0", "0">>)

C9_Witness ==
    /\ pc = "formatar_simbolo"
    /\ entrada = StrArg(<<"a", "b", "c">>)
    /\ ret.txt = <<"R", "$", " ", "0", ",", "0", "0">>

\* the digits of s as an integer, rendered with "." between groups of three
Regrouped(s) == ReplaceChar(GroupComma(IntOfDigits(DigitsOf(s))), ",", ".")

C11_Original ==
    pc = "final" => ret.txt = formatar_moeda(entrada, FALSE).txt

\* C11: for every non-empty string x, aplicar_formatacao_valor_final(x) is
\* formatar_moeda(x, com_simbolo=False); the empty string is returned
\* unchanged.
C11_DelegaSeNaoVazio ==
    pc = "final" =>
        IF entrada.s # <<>>
        THEN ret.txt = formatar_moeda(entrada, FALSE).txt
        ELSE ret.txt = <<>>

C11_Witness ==
    /\ pc = "final"
    /\ entrada = StrArg(<<"R", "$", " ", "1", ".", "2", "3", "4", ",", "5", "6">>)
    /\ ret.txt = <<"1", ".", "2", "3", "4", ",", "5", "6">>

\* the amount, in cents, that a text of the shape 1.234,56 displays
Exibido(s) == IntOfDigits(DigitsOf(s))

\* C12: for every non-empty x typed into the value field, the text y that
\* aplicar_formatacao_valor_final leaves in the field has the shape 1.234,56,
\* validar_moeda(y) is True, and converter_para_decimal(y) returns the
\* amount y displays.
C12_Reanalisavel ==
    entrada.tipo = "str" /\ entrada.s # <<>> =>
        /\ (pc \in {"foco", "validar_moeda", "converter_valor"} => DisplayShape(valor_var))
        /\ (pc = "validar_moeda" => ret.txt = PyTrue)
        /\ (pc = "converter_valor" => ret.exc = "" /\ ret.c = Exibido(valor_var))

C12_Witness ==
    /\ pc = "converter_valor"
    /\ entrada = StrArg(<<"1", "2", "3", "4", ".", "5", "6">>)
    /\ valor_var = <<"1", ".", "2", "3", "4", ",", "5", "6">>
    /\ ret.c = 123456

(***************************************************************************)
(* core/utils.py: the date functions.  datetime.strptime(s, "%d/%m/%Y")    *)
(* matches s against                                                       *)
(*   (3[0-1]|[1-2]\d|0[1-9]|[1-9]| [1-9])/(1[0-2]|0[1-9]|[1-9])/(\d\d\d\d) *)
(* raises ValueError when s does not match, when text remains after the    *)
(* match, or when the fields are not a date of the calendar, and raises    *)
(* TypeError when s is not a str.                                          *)
(***************************************************************************)
NonZeroDigits == Digits \ {"0"}

\* %d
MatchDia(s) ==
    \/ Len(s) = 2 /\ s[1] = "3" /\ s[2] \in {"0", "1"}
    \/ Len(s) = 2 /\ s[1] \in {"1", "2"} /\ s[2] \in Digits
    \/ Len(s) = 2 /\ s[1] = "0" /\ s[2] \in NonZeroDigits
    \/ Len(s) = 1 /\ s[1] \in NonZeroDigits
    \/ Len(s) = 2 /\ s[1] = " " /\ s[2] \in NonZeroDigits

\* %m
MatchMes(s) ==
    \/ Len(s) = 2 /\ s[1] = "1" /\ s[2] \in {"0", "1", "2"}
    \/ Len(s) = 2 /\ s[1] = "0" /\ s[2] \in NonZeroDigits
    \/ Len(s) = 1 /\ s[1] \in NonZeroDigits

\* %Y
MatchAno(s) == Len(s) = 4 /\ IsDigits(s)

Bissexto(ano) == ano % 4 = 0 /\ (ano % 100 # 0 \/ ano % 400 = 0)

DiasNoMes(mes, ano) ==
    IF mes = 2 THEN (IF Bissexto(ano) THEN 29 ELSE 28)
    ELSE IF mes \in {4, 6, 9, 11} THEN 30
    ELSE 31

\* the int of a matched field; the space of " 5" is skipped
IntCampo(s) == IntOfDigits(SelectSeq(s, LAMBDA ch : ch \in Digits))

DataObj(dia, mes, ano) == [exc |-> "", dia |-> dia, mes |-> mes, ano |-> ano]

DataErro(exc) == [exc |-> exc, dia |-> 0, mes |-> 0, ano |-> 0]

\* datetime.strptime(data_str, "%d/%m/%Y")
Strptime(data_str) ==
    IF data_str.tipo # "str" THEN DataErro("TypeError")
    ELSE LET partes == Split(data_str.s, "/")
         IN IF Len(partes) = 3 /\ MatchDia(partes[1]) /\ MatchMes(partes[2]) /\ MatchAno(partes[3])
            THEN LET dia == IntCampo(partes[1])
                     mes == IntCampo(partes[2])
                     ano == IntCampo(partes[3])
                 IN IF ano >= 1 /\ dia <= DiasNoMes(mes, ano)
                    THEN DataObj(dia, mes, ano)
                    ELSE DataErro("ValueError")
            ELSE DataErro("ValueError")

\* n as at least `largura` digits, zero-padded on the left
RECURSIVE ZeroPad(_, _)
ZeroPad(s, largura) == IF Len(s) >= largura THEN s ELSE ZeroPad(<<"0">> \o s, largura)

\* data_obj.strftime("%Y-%m-%d"): the C library decides whether %Y is padded
Strftime(data_obj) ==
    (IF pad_ano THEN ZeroPad(IntToStr(data_obj.ano), 4) ELSE IntToStr(data_obj.ano))
        \o <<"-">> \o ZeroPad(IntToStr(data_obj.mes), 2)
        \o <<"-">> \o ZeroPad(IntToStr(data_obj.dia), 2)

validar_data(data_str) ==
    LET data_obj == Strptime(data_str)
    IN IF data_obj.exc = "" THEN RetBool(TRUE)
       ELSE IF data_obj.exc = "ValueError" THEN RetBool(FALSE)
       ELSE Raises(data_obj.exc)

formatar_data_sql(data_str) ==
    LET data_obj == Strptime(data_str)
    IN IF data_obj.exc = "" THEN Returns(0, Strftime(data_obj))
       ELSE IF data_obj.exc = "ValueError" THEN Returns(0, PyNone)
       ELSE Raises(data_obj.exc)

\* re.sub(r"\D", "", numero)
limpar_numero(numero) ==
    IF numero.tipo # "str" THEN Raises("TypeError")
    ELSE Returns(0, SelectSeq(numero.s, LAMBDA ch : ch \in Digits))

\* int(s) of a field: surrounding spaces and one sign are allowed
IntPy(s) ==
    LET t == Strip(s)
        u == IF t # <<>> /\ Head(t) \in {"+", "-"} THEN Tail(t) ELSE t
    IN IF u # <<>> /\ IsDigits(u)
       THEN [exc |-> "", n |-> (IF t # <<>> /\ Head(t) = "-" THEN -1 ELSE 1) * IntOfDigits(u)]
       ELSE [exc |-> "ValueError", n |-> 0]

\* the value returned unchanged
Original(valor) == Returns(0, IF valor.tipo = "str" THEN valor.s ELSE PyStr(valor))


\* datetime is the class datetime.datetime, so datetime.date(year, month,
\* day) calls the method date on an int and raises TypeError, which the
\* except clause does not catch
converter_data_para_ordenacao(data_str) ==
    IF data_str.tipo = "str" /\ Len(data_str.s) = 10
          /\ data_str.s[3] = "/" /\ data_str.s[6] = "/"
    THEN LET partes == Split(data_str.s, "/")
         IN IF Len(partes) # 3 THEN Original(data_str)
            ELSE IF \E i \in 1..3 : IntPy(partes[i]).exc # "" THEN Original(data_str)
            ELSE Raises("TypeError")
    ELSE Original(data_str)

(***************************************************************************)
(* The date inputs: a day, a month and a year text joined by a separator,  *)
(* with or without a trailing character, and values that are not a str.    *)
(***************************************************************************)
DiasTexto == {<<"0", "1">>, <<"1">>, <<" ", "1">>, <<"2", "9">>, <<"3", "0">>, <<"3", "1">>, <<"3", "2">>, <<"0", "0">>, <<"0", "0", "1">>, <<>>}

MesesTexto == {<<"0", "1">>, <<"1">>, <<"0", "2">>, <<"2">>, <<"0", "4">>, <<"1", "2">>, <<"1", "3">>, <<"0", "0">>, <<" ", "1">>}

AnosTexto == {<<"2", "0", "2", "4">>, <<"2", "0", "2", "3">>, <<"1", "9", "0", "0">>, <<"2", "0", "0", "0">>, <<"0", "9", "9", "9">>, <<"0", "0", "0", "1">>, <<"0", "0", "0", "0">>, <<"2", "4">>, <<"0", "2", "0", "2", "4">>}

Separadores == {"/", "-"}

Finais == {<<>>, <<" ">>}

DatasTexto ==
    {d \o <<sep>> \o m \o <<sep>> \o a \o f :
        d \in DiasTexto, m \in MesesTexto, a \in AnosTexto, sep \in Separadores, f \in Finais}
    \cup {<<>>, <<"a", "b", "c">>, <<"0", "1", "/", "0", "1", "/", "2", "0", "2", "4", "/", "5">>, <<"0", "1", "/", "0", "1", "/", "2", "0", "2", "4", "x">>, <<"0", "1", "/", "0", "1", "2", "0", "2", "4">>, <<"0", " ", "1", "/", "0", "1", "/", "2", "0", "2", "4">>}

DataEntradas ==
    {StrArg(s) : s \in DatasTexto} \cup {NoneArg, IntArg(FALSE, 5)}

InitData ==
    /\ SemBanco
    /\ entrada \in DataEntradas
    /\ tie = TRUE
    /\ pad_ano \in BOOLEAN
    /\ pc = "init"
    /\ ret = NoRet
    /\ valor_var = <<>>
    /\ nota = NoNota

\* validar_data(entrada)
ValidarData ==
    /\ pc = "init"
    /\ ret' = validar_data(entrada)
    /\ pc' = "validar_data"
    /\ UNCHANGED <<notas, clientes, main_menu, cadastro, entrada, tie, pad_ano, valor_var, nota>>

\* formatar_data_sql(entrada)
FormatarDataSql ==
    /\ pc = "init"
    /\ ret' = formatar_data_sql(entrada)
    /\ pc' = "formatar_data_sql"
    /\ UNCHANGED <<notas, clientes, main_menu, cadastro, entrada, tie, pad_ano, valor_var, nota>>

\* limpar_numero(entrada)
LimparNumero ==
    /\ pc = "init"
    /\ ret' = limpar_numero(entrada)
    /\ pc' = "limpar_numero"
    /\ UNCHANGED <<notas, clientes, main_menu, cadastro, entrada, tie, pad_ano, valor_var, nota>>

\* converter_data_para_ordenacao(entrada)
ConverterDataParaOrdenacao ==
    /\ pc = "init"
    /\ ret' = converter_data_para_ordenacao(entrada)
    /\ pc' = "converter_data_para_ordenacao"
    /\ UNCHANGED <<notas, clientes, main_menu, cadastro, entrada, tie, pad_ano, valor_var, nota>>

NextData ==
    \/ ConverterDataParaOrdenacao
    \/ ValidarData
    \/ FormatarDataSql
    \/ LimparNumero

SpecData == InitData /\ [][NextData]_vars

\* the strict form DD/MM/YYYY naming a date of the calendar
DataEstrita(s) ==
    /\ Len(s) = 10
    /\ s[3] = "/"
    /\ s[6] = "/"
    /\ \A i \in {1, 2, 4, 5, 7, 8, 9, 10} : s[i] \in Digits
    /\ LET dia == IntOfDigits(SubSeq(s, 1, 2))
           mes == IntOfDigits(SubSeq(s, 4, 5))
           ano == IntOfDigits(SubSeq(s, 7, 10))
       IN ano >= 1 /\ mes \in 1..12 /\ dia \in 1..DiasNoMes(mes, ano)

\* the form YYYY-MM-DD
FormaSql(s) ==
    /\ Len(s) = 10
    /\ s[5] = "-"
    /\ s[8] = "-"
    /\ \A i \in {1, 2, 3, 4, 6, 7, 9, 10} : s[i] \in Digits

\* C13: validar_data(s) is True if and only if s is two-digit day, "/",
\* two-digit month, "/", four-digit year and names a date of the calendar;
\* shortened fields, other layouts and impossible dates are rejected.
C13_FormaEstrita ==
    pc = "validar_data" /\ entrada.tipo = "str" =>
        /\ ret.exc = ""
        /\ (ret.txt = PyTrue <=> DataEstrita(entrada.s))

\* C14: formatar_data_sql(s) returns YYYY-MM-DD with the year, month and
\* day of s exactly when validar_data(s) is True, and None exactly when
\* validar_data(s) is False.
C14_MesmaData ==
    pc = "formatar_data_sql" /\ entrada.tipo = "str" =>
        /\ ret.exc = ""
        /\ IF validar_data(entrada).txt = PyTrue
           THEN LET partes == Split(entrada.s, "/")
                IN /\ FormaSql(ret.txt)
                   /\ Len(partes) = 3
                   /\ IntOfDigits(SubSeq(ret.txt, 1, 4)) = IntCampo(partes[3])
                   /\ IntOfDigits(SubSeq(ret.txt, 6, 7)) = IntCampo(partes[2])
                   /\ IntOfDigits(SubSeq(ret.txt, 9, 10)) = IntCampo(partes[1])
           ELSE ret.txt = PyNone

\* C15: no exception escapes: validar_data, formatar_data_sql and
\* limpar_numero return a value for every input, None and values that are
\* not a str included.
C15_Total ==
    pc \in {"validar_data", "formatar_data_sql", "limpar_numero"} => ret.exc = ""

(***************************************************************************)
(* core/utils.py: the phone and CNPJ functions.                            *)
(***************************************************************************)
\* re.sub(r"\D", "", s)
SoDigitos(s) == SelectSeq(s, LAMBDA ch : ch \in Digits)

validar_telefone(telefone) ==
    IF telefone = <<>> THEN RetBool(TRUE)
    ELSE LET digits == SoDigitos(telefone)
         IN RetBool(Len(digits) \in {10, 11} /\ IsDigits(digits))

FormatarTelefoneFixo(telefone) ==
    LET digits == SoDigitos(telefone)
    IN IF Len(digits) \in {10, 11}
       THEN <<"(">> \o SubSeq(digits, 1, 2) \o <<")", " ">> \o SubSeq(digits, 3, 6)
                \o <<"-">> \o SubSeq(digits, 7, Len(digits))
       ELSE telefone

formatar_telefone(telefone) ==
    IF telefone = <<>> THEN telefone
    ELSE LET digits == SoDigitos(telefone)
         IN IF Len(digits) = 11
            THEN <<"(">> \o SubSeq(digits, 1, 2) \o <<")", " ">> \o SubSeq(digits, 3, 7)
                     \o <<"-">> \o SubSeq(digits, 8, Len(digits))
            ELSE IF Len(digits) = 10
            THEN <<"(">> \o SubSeq(digits, 1, 2) \o <<")", " ">> \o SubSeq(digits, 3, 6)
                     \o <<"-">> \o SubSeq(digits, 7, Len(digits))
            ELSE telefone

ValidarCnpjMinimo(cnpj) ==
    IF cnpj = <<>> THEN RetBool(TRUE)
    ELSE RetBool(Len(SoDigitos(cnpj)) >= 14)

validar_cnpj(cnpj) ==
    IF cnpj = <<>> THEN RetBool(TRUE)
    ELSE LET digits == SoDigitos(cnpj)
         IN RetBool(Len(digits) = 14 /\ IsDigits(digits))

FormatarCnpjCurto(cnpj) ==
    LET digits == SoDigitos(cnpj)
    IN IF Len(digits) = 14
       THEN SubSeq(digits, 1, 2) \o <<".">> \o SubSeq(digits, 3, 5) \o <<".">>
                \o SubSeq(digits, 6, 8) \o <<"/">> \o SubSeq(digits, 9, 11)
                \o <<"-">> \o SubSeq(digits, 13, Len(digits))
       ELSE cnpj

formatar_cnpj(cnpj) ==
    IF cnpj = <<>> THEN cnpj
    ELSE LET digits == SoDigitos(cnpj)
         IN IF Len(digits) = 14
            THEN SubSeq(digits, 1, 2) \o <<".">> \o SubSeq(digits, 3, 5) \o <<".">>
                     \o SubSeq(digits, 6, 8) \o <<"/">> \o SubSeq(digits, 9, 12)
                     \o <<"-">> \o SubSeq(digits, 13, Len(digits))
            ELSE cnpj

(***************************************************************************)
(* The phone and CNPJ inputs: 0 to MaxDigitos digits, bare or with         *)
(* punctuation, spaces or letters between them.                            *)
(***************************************************************************)
MaxDigitos == 15

\* n digits, each different from its neighbours: 1234567890123...
Numero(n, desloc) == [i \in 1..n |-> DigitChars[((i + desloc) % 10) + 1]]

\* sep inserted after every k-th digit but the last
RECURSIVE Intercalar(_, _, _)
Intercalar(d, sep, k) ==
    IF Len(d) <= k THEN d
    ELSE SubSeq(d, 1, k) \o <<sep>> \o Intercalar(SubSeq(d, k + 1, Len(d)), sep, k)

Decorados(d) ==
    {d, <<"(">> \o d, d \o <<" ">>}
    \cup {Intercalar(d, sep, k) : sep \in {".", "-", " ", "x"}, k \in {2, 3}}

IdentTextos ==
    UNION {Decorados(Numero(n, desloc)) : n \in 0..MaxDigitos, desloc \in {0, 3}}

IdentEntradas == {StrArg(s) : s \in IdentTextos}

InitIdent ==
    /\ SemBanco
    /\ entrada \in IdentEntradas
    /\ tie = TRUE
    /\ pad_ano = TRUE
    /\ pc = "init"
    /\ ret = NoRet
    /\ valor_var = <<>>
    /\ nota = NoNota

\* validar_telefone(entrada)
ValidarTelefone ==
    /\ pc = "init"
    /\ ret' = validar_telefone(entrada.s)
    /\ pc' = "validar_telefone"
    /\ UNCHANGED <<notas, clientes, main_menu, cadastro, entrada, tie, pad_ano, valor_var, nota>>

\* validar_cnpj(entrada)
ValidarCnpj ==
    /\ pc = "init"
    /\ ret' = validar_cnpj(entrada.s)
    /\ pc' = "validar_cnpj"
    /\ UNCHANGED <<notas, clientes, main_menu, cadastro, entrada, tie, pad_ano, valor_var, nota>>

\* formatar_telefone(entrada)
FormatarTelefone ==
    /\ pc = "init"
    /\ ret' = Returns(0, formatar_telefone(entrada.s))
    /\ pc' = "formatar_telefone"
    /\ UNCHANGED <<notas, clientes, main_menu, cadastro, entrada, tie, pad_ano, valor_var, nota>>

\* formatar_cnpj(entrada)
FormatarCnpj ==
    /\ pc = "init"
    /\ ret' = Returns(0, formatar_cnpj(entrada.s))
    /\ pc' = "formatar_cnpj"
    /\ UNCHANGED <<notas, clientes, main_menu, cadastro, entrada, tie, pad_ano, valor_var, nota>>

\* limpar_numero applied to what formatar_telefone returned
LimparTelefoneFormatado ==
    /\ pc = "formatar_telefone"
    /\ ret' = limpar_numero(StrArg(ret.txt))
    /\ pc' = "limpar_telefone"
    /\ UNCHANGED <<notas, clientes, main_menu, cadastro, entrada, tie, pad_ano, valor_var, nota>>

\* limpar_numero applied to what formatar_cnpj returned
LimparCnpjFormatado ==
    /\ pc = "formatar_cnpj"
    /\ ret' = limpar_numero(StrArg(ret.txt))
    /\ pc' = "limpar_cnpj"
    /\ UNCHANGED <<notas, clientes, main_menu, cadastro, entrada, tie, pad_ano, valor_var, nota>>

NextIdent ==
    \/ ValidarTelefone
    \/ ValidarCnpj
    \/ FormatarTelefone
    \/ FormatarCnpj
    \/ LimparTelefoneFormatado
    \/ LimparCnpjFormatado

SpecIdent == InitIdent /\ [][NextIdent]_vars

\* the mask with each "D" replaced by the next digit of d
RECURSIVE Preencher(_, _)
Preencher(mascara, d) ==
    IF mascara = <<>> THEN <<>>
    ELSE IF Head(mascara) = "D" THEN <<Head(d)>> \o Preencher(Tail(mascara), Tail(d))
    ELSE <<Head(mascara)>> \o Preencher(Tail(mascara), d)

MascaraCelular == <<"(", "D", "D", ")", " ", "D", "D", "D", "D", "D", "-", "D", "D", "D", "D">>

MascaraFixo == <<"(", "D", "D", ")", " ", "D", "D", "D", "D", "-", "D", "D", "D", "D">>

MascaraCnpj == <<"D", "D", ".", "D", "D", "D", ".", "D", "D", "D", "/", "D", "D", "D", "D", "-", "D", "D">>

\* C16: validar_telefone and validar_cnpj return True exactly for the empty
\* input and for an input whose digit characters number 10 or 11 (phone),
\* 14 (CNPJ); every other input gives False.
C16_ContagemDeDigitos ==
    /\ (pc = "validar_telefone" =>
           /\ ret.exc = ""
           /\ (ret.txt = PyTrue <=> entrada.s = <<>> \/ Len(DigitsOf(entrada.s)) \in {10, 11})
           /\ ret.txt \in {PyTrue, PyFalse})
    /\ (pc = "validar_cnpj" =>
           /\ ret.exc = ""
           /\ (ret.txt = PyTrue <=> entrada.s = <<>> \/ Len(DigitsOf(entrada.s)) = 14)
           /\ ret.txt \in {PyTrue, PyFalse})

C16_Witness ==
    /\ pc = "validar_cnpj"
    /\ Len(DigitsOf(entrada.s)) = 14
    /\ Len(entrada.s) > 14
    /\ ret.txt = PyTrue

\* C17: formatar_telefone returns "(DD) DDDDD-DDDD" for an input of exactly
\* 11 digits and "(DD) DDDD-DDDD" for exactly 10, formatar_cnpj returns
\* "DD.DDD.DDD/DDDD-DD" for exactly 14, the digits in their order; for any
\* other digit count the input is returned unchanged.
C17_SoComContagemExata ==
    LET d == DigitsOf(entrada.s)
    IN /\ (pc = "formatar_telefone" =>
              ret.txt = IF Len(d) = 11 THEN Preencher(MascaraCelular, d)
                        ELSE IF Len(d) = 10 THEN Preencher(MascaraFixo, d)
                        ELSE entrada.s)
       /\ (pc = "formatar_cnpj" =>
              ret.txt = IF Len(d) = 14 THEN Preencher(MascaraCnpj, d) ELSE entrada.s)

C17_Witness ==
    /\ pc = "formatar_telefone"
    /\ entrada.s = <<"1", "2", "3", "4", "5", "6", "7", "8", "9", "0", "1">>
    /\ ret.txt = <<"(", "1", "2", ")", " ", "3", "4", "5", "6", "7", "-", "8", "9", "0", "1">>

\* C18: for every string d of 14 digits limpar_numero(formatar_cnpj(d)) is
\* d, and for every string p of 10 or 11 digits
\* limpar_numero(formatar_telefone(p)) is p; for every input the digits
\* of the returned form are the digits of the input, in the same order.
C18_IdaEVolta ==
    /\ (pc \in {"limpar_cnpj", "limpar_telefone"} =>
           ret.exc = "" /\ ret.txt = DigitsOf(entrada.s))
    /\ (pc = "limpar_cnpj" /\ AllDigits(entrada.s) /\ Len(entrada.s) = 14 =>
           ret.exc = "" /\ ret.txt = entrada.s)
    /\ (pc = "limpar_telefone" /\ AllDigits(entrada.s) /\ Len(entrada.s) \in {10, 11} =>
           ret.exc = "" /\ ret.txt = entrada.s)

C18_Witness ==
    /\ pc = "limpar_cnpj"
    /\ entrada.s = <<"1", "2", "3", "4", "5", "6", "7", "8", "9", "0", "1", "2", "3", "4">>
    /\ ret.txt = entrada.s

(***************************************************************************)
(* core/utils.py: validar_formulario_nota.  The result is the pair         *)
(* (ok, msg).                                                              *)
(***************************************************************************)
MsgObrigatorios == "Preencha todos os campos obrigatórios!"

MsgData == "Data inválida! Use o formato DD/MM/AAAA."

MsgNumero == "Número da nota deve conter apenas dígitos!"

MsgFormatoValor == "Valor inválido! Use formato como 1234,56 ou 1.234,56."

MsgValorZero == "Valor deve ser maior que zero!"

MsgValorInvalido == "Valor inválido!"

Resultado(ok, msg) == [exc |-> "", ok |-> ok, msg |-> msg]

\* numero.isdigit() if numero else False
validar_numero_nota(numero) == numero # <<>> /\ IsDigits(numero)

ValidarFormularioNumeroPrimeiro(data, numero, cliente, valor) ==
    IF data = <<>> \/ numero = <<>> \/ cliente = <<>> \/ valor = <<>>
    THEN Resultado(FALSE, MsgObrigatorios)
    ELSE IF ~validar_numero_nota(numero) THEN Resultado(FALSE, MsgNumero)
    ELSE IF validar_data(StrArg(data)).txt # PyTrue THEN Resultado(FALSE, MsgData)
    ELSE IF ~validar_moeda(valor) THEN Resultado(FALSE, MsgFormatoValor)
    ELSE LET valor_decimal == converter_para_decimal(StrArg(valor))
         IN IF valor_decimal.exc # "" THEN Resultado(FALSE, MsgValorInvalido)
            ELSE IF ~valor_decimal.inf /\ valor_decimal.c <= 0 THEN Resultado(FALSE, MsgValorZero)
            ELSE Resultado(TRUE, "")

ValidarFormularioAceitaZero(data, numero, cliente, valor) ==
    IF data = <<>> \/ numero = <<>> \/ cliente = <<>> \/ valor = <<>>
    THEN Resultado(FALSE, MsgObrigatorios)
    ELSE IF validar_data(StrArg(data)).txt # PyTrue THEN Resultado(FALSE, MsgData)
    ELSE IF ~validar_numero_nota(numero) THEN Resultado(FALSE, MsgNumero)
    ELSE IF ~validar_moeda(valor) THEN Resultado(FALSE, MsgFormatoValor)
    ELSE LET valor_decimal == converter_para_decimal(StrArg(valor))
         IN IF valor_decimal.exc # "" THEN Resultado(FALSE, MsgValorInvalido)
            ELSE IF ~valor_decimal.inf /\ valor_decimal.c < 0 THEN Resultado(FALSE, MsgValorZero)
            ELSE Resultado(TRUE, "")

validar_formulario_nota(data, numero, cliente, valor) ==
    IF data = <<>> \/ numero = <<>> \/ cliente = <<>> \/ valor = <<>>
    THEN Resultado(FALSE, MsgObrigatorios)
    ELSE IF validar_data(StrArg(data)).txt # PyTrue THEN Resultado(FALSE, MsgData)
    ELSE IF ~validar_numero_nota(numero) THEN Resultado(FALSE, MsgNumero)
    ELSE IF ~validar_moeda(valor) THEN Resultado(FALSE, MsgFormatoValor)
    ELSE LET valor_decimal == converter_para_decimal(StrArg(valor))
         IN IF valor_decimal.exc # "" THEN Resultado(FALSE, MsgValorInvalido)
            ELSE IF ~valor_decimal.inf /\ valor_decimal.c <= 0 THEN Resultado(FALSE, MsgValorZero)
            ELSE Resultado(TRUE, "")

(***************************************************************************)
(* core/utils.py: validar_email and validar_formulario_cliente, and the    *)
(* validation AddInvoiceManager runs before saving.                        *)
(***************************************************************************)
Letras ==
    {"a", "b", "c", "d", "e", "f", "g", "h", "i", "j", "k", "l", "m",
     "n", "o", "p", "q", "r", "s", "t", "u", "v", "w", "x", "y", "z",
     "A", "B", "C", "D", "E", "F", "G", "H", "I", "J", "K", "L", "M",
     "N", "O", "P", "Q", "R", "S", "T", "U", "V", "W", "X", "Y", "Z"}

\* ^[a-zA-Z0-9._%+-]+@[a-zA-Z0-9.-]+\.[a-zA-Z]{2,}$
MatchEmail(s) ==
    \E a \in 2..Len(s) :
        /\ s[a] = "@"
        /\ \A i \in 1..(a - 1) : s[i] \in Letras \cup Digits \cup {".", "_", "%", "+", "-"}
        /\ \E k \in (a + 2)..(Len(s) - 2) :
              /\ s[k] = "."
              /\ \A i \in (a + 1)..(k - 1) : s[i] \in Letras \cup Digits \cup {".", "-"}
              /\ \A i \in (k + 1)..Len(s) : s[i] \in Letras

validar_email(email) ==
    IF email = <<>> THEN RetBool(TRUE) ELSE RetBool(MatchEmail(email))

ValidarClienteCnpjPrimeiro(nome, telefone, email, cnpj) ==
    IF nome = <<>> \/ Strip(nome) = <<>>
    THEN Resultado(FALSE, "O campo Nome é obrigatório!")
    ELSE IF cnpj # <<>> /\ validar_cnpj(cnpj).txt # PyTrue
    THEN Resultado(FALSE, "CNPJ inválido! Deve ter 14 dígitos.")
    ELSE IF telefone # <<>> /\ validar_telefone(telefone).txt # PyTrue
    THEN Resultado(FALSE, "Telefone inválido! Use (00) 00000-0000 ou (00) 0000-0000")
    ELSE IF email # <<>> /\ validar_email(email).txt # PyTrue
    THEN Resultado(FALSE, "Email inválido!")
    ELSE Resultado(TRUE, "")

validar_formulario_cliente(nome, telefone, email, cnpj) ==
    IF nome = <<>> \/ Strip(nome) = <<>>
    THEN Resultado(FALSE, "O campo Nome é obrigatório!")
    ELSE IF telefone # <<>> /\ validar_telefone(telefone).txt # PyTrue
    THEN Resultado(FALSE, "Telefone inválido! Use (00) 00000-0000 ou (00) 0000-0000")
    ELSE IF email # <<>> /\ validar_email(email).txt # PyTrue
    THEN Resultado(FALSE, "Email inválido!")
    ELSE IF cnpj # <<>> /\ validar_cnpj(cnpj).txt # PyTrue
    THEN Resultado(FALSE, "CNPJ inválido! Deve ter 14 dígitos.")
    ELSE Resultado(TRUE, "")

\* AddInvoiceManager.validar_formulario
validar_formulario(data, numero, cliente, valor, telefone, email, cnpj) ==
    LET nota_ok == validar_formulario_nota(data, numero, cliente, valor)
    IN IF ~nota_ok.ok THEN Resultado(FALSE, nota_ok.msg)
       ELSE IF telefone # <<>> /\ validar_telefone(telefone).txt # PyTrue
       THEN Resultado(FALSE, "Telefone inválido! Use (00) 00000-0000 ou (00) 0000-0000")
       ELSE IF email # <<>> /\ validar_email(email).txt # PyTrue
       THEN Resultado(FALSE, "Email inválido!")
       ELSE IF cnpj # <<>> /\ validar_cnpj(cnpj).txt # PyTrue
       THEN Resultado(FALSE, "CNPJ inválido! Deve ter 14 dígitos.")
       ELSE Resultado(TRUE, "Formulário válido")

(***************************************************************************)
(* The form inputs: the four fields as the user left them.                 *)
(***************************************************************************)
DatasForm == {
    <<>>,
    <<"0", "1", "/", "0", "1", "/", "2", "0", "2", "4">>,
    <<"2", "9", "/", "0", "2", "/", "2", "0", "2", "4">>,
    <<"3", "1", "/", "0", "2", "/", "2", "0", "2", "4">>,
    <<"1", "/", "1", "/", "2", "0", "2", "4">>,
    <<"2", "0", "2", "4", "-", "0", "1", "-", "0", "1">>,
    <<"0", "1", "/", "0", "1", "/", "2", "4">>,
    <<" ">>}

NumerosForm == {
    <<>>,
    <<"1">>,
    <<"1", "2", "3">>,
    <<"1", "2", "a">>,
    <<"-", "1">>,
    <<" ">>,
    <<"1", ".", "5">>}

ClientesForm == {
    <<>>,
    <<"A", "c", "m", "e">>,
    <<" ">>}

ValoresForm == {
    <<>>,
    <<"0", ",", "0", "0">>,
    <<"0">>,
    <<"0", ",", "0">>,
    <<"0", "0", "0">>,
    <<"0", ".", "0", "0">>,
    <<"R", "$", " ", "0", ",", "0", "0">>,
    <<"0", ".", "0", "0", "1">>,
    <<"0", ".", "0", "0", "5">>,
    <<"0", ",", "0", "1">>,
    <<"1", "0", "0", ",", "0", "0">>,
    <<"1", ".", "2", "3", "4", ",", "5", "6">>,
    <<"1", "2", "3", "4", ".", "5", "6">>,
    <<"1", ".", "2", "3", "4">>,
    <<"1", ".", "2", "3", "4", ".", "5", "6", "7">>,
    <<"R", "$", " ", "1", "0">>,
    <<"a", "b", "c">>,
    <<"1", ",", "2", "3", "4">>,
    <<"-", "5">>,
    <<" ">>,
    <<"1", ",", "2", ".", "3">>,
    <<"1", "2", ",">>}

TelefonesForm == {
    <<>>,
    <<"1", "1", "9", "8", "7", "6", "5", "4", "3", "2", "1">>,
    <<"(", "1", "1", ")", " ", "9", "8", "7", "6", "5", "-", "4", "3", "2", "1">>,
    <<"1", "1", "9", "8", "7", "6", "5", "4", "3", "2">>,
    <<"1", "1", "9">>}

EmailsForm == {
    <<>>,
    <<"a", "@", "b", ".", "c", "o">>,
    <<"a", "@", "b">>,
    <<"a", " ", "b", "@", "c", ".", "c", "o", "m">>,
    <<"a", "@", "b", ".", "c">>,
    <<"@", "b", ".", "c", "o">>}

CnpjsForm == {
    <<>>,
    <<"1", "2", "3", "4", "5", "6", "7", "8", "0", "0", "0", "1", "9", "0">>,
    <<"1", "2", ".", "3", "4", "5", ".", "6", "7", "8", "/", "0", "0", "0", "1", "-", "9", "0">>,
    <<"1", "2", "3">>}

NomesForm == {
    <<>>,
    <<" ">>,
    <<"A", "c", "m", "e">>,
    <<" ", "A", "n", "a", " ">>}

\* every combination of the four required fields with the optional fields
\* empty, and every combination of the optional fields with required
\* fields that pass or fail
FormEntradas ==
    [tipo : {"form"}, data : DatasForm, numero : NumerosForm,
     cliente : ClientesForm, valor : ValoresForm,
     telefone : {<<>>}, email : {<<>>}, cnpj : {<<>>}]
    \cup
    [tipo : {"form"}, data : {<<"0", "1", "/", "0", "1", "/", "2", "0", "2", "4">>, <<"3", "1", "/", "0", "2", "/", "2", "0", "2", "4">>},
     numero : {<<"1">>}, cliente : {<<"A", "c", "m", "e">>}, valor : {<<"1", "0", "0", ",", "0", "0">>, <<"0", ",", "0", "0">>},
     telefone : TelefonesForm, email : EmailsForm, cnpj : CnpjsForm]

ClienteEntradas ==
    [tipo : {"cliente"}, nome : NomesForm, telefone : TelefonesForm,
     email : EmailsForm, cnpj : CnpjsForm]

InitForm ==
    /\ SemBanco
    /\ entrada \in FormEntradas \cup ClienteEntradas
    /\ tie \in BOOLEAN
    /\ pad_ano = TRUE
    /\ pc = "init"
    /\ ret = NoRet
    /\ valor_var = <<>>
    /\ nota = NoNota

\* validar_formulario_nota(data, numero, cliente, valor)
ValidarFormularioNota ==
    /\ pc = "init"
    /\ entrada.tipo = "form"
    /\ ret' = validar_formulario_nota(entrada.data, entrada.numero, entrada.cliente, entrada.valor)
    /\ pc' = "validar_formulario_nota"
    /\ UNCHANGED <<notas, clientes, main_menu, cadastro, entrada, tie, pad_ano, valor_var, nota>>

\* validar_formulario_cliente(nome, telefone, email, cnpj)
ValidarFormularioCliente ==
    /\ pc = "init"
    /\ entrada.tipo = "cliente"
    /\ ret' = validar_formulario_cliente(entrada.nome, entrada.telefone, entrada.email, entrada.cnpj)
    /\ pc' = "validar_formulario_cliente"
    /\ UNCHANGED <<notas, clientes, main_menu, cadastro, entrada, tie, pad_ano, valor_var, nota>>

\* AddInvoiceManager.validar_formulario(data, numero, cliente, valor,
\* telefone, email, cnpj)
ValidarFormulario ==
    /\ pc = "init"
    /\ entrada.tipo = "form"
    /\ ret' = validar_formulario(entrada.data, entrada.numero, entrada.cliente, entrada.valor,
                                 entrada.telefone, entrada.email, entrada.cnpj)
    /\ pc' = "validar_formulario"
    /\ UNCHANGED <<notas, clientes, main_menu, cadastro, entrada, tie, pad_ano, valor_var, nota>>

NextForm ==
    \/ ValidarFormularioNota
    \/ ValidarFormularioCliente
    \/ ValidarFormulario

SpecForm == InitForm /\ [][NextForm]_vars

\* the five checks of the invoice form, each on its own
CamposPreenchidos ==
    entrada.data # <<>> /\ entrada.numero # <<>> /\ entrada.cliente # <<>> /\ entrada.valor # <<>>

DataValida == validar_data(StrArg(entrada.data)).txt = PyTrue

NumeroSoDigitos == entrada.numero # <<>> /\ AllDigits(entrada.numero)

ValorComForma == validar_moeda(entrada.valor)

ValorConvertido == converter_para_decimal(StrArg(entrada.valor))

\* C19: validar_formulario_nota returns (False, m) with m the message of
\* the first check that fails in the order: all four fields non-empty, date
\* valid, number all digits, value of the currency shape, value above
\* zero; it returns (True, "") when none fails.
C19_PrimeiraFalha ==
    pc = "validar_formulario_nota" =>
        ret = IF ~CamposPreenchidos THEN Resultado(FALSE, MsgObrigatorios)
              ELSE IF ~DataValida THEN Resultado(FALSE, MsgData)
              ELSE IF ~NumeroSoDigitos THEN Resultado(FALSE, MsgNumero)
              ELSE IF ~ValorComForma THEN Resultado(FALSE, MsgFormatoValor)
              ELSE IF ~(ValorConvertido.inf \/ ValorConvertido.c > 0) THEN Resultado(FALSE, MsgValorZero)
              ELSE Resultado(TRUE, "")

C19_Witness ==
    /\ pc = "validar_formulario_nota"
    /\ entrada.data = <<"3", "1", "/", "0", "2", "/", "2", "0", "2", "4">>
    /\ entrada.numero = <<"1", "2", "a">>
    /\ entrada.cliente = <<"A", "c", "m", "e">>
    /\ entrada.valor = <<"a", "b", "c">>
    /\ ret = Resultado(FALSE, "Data inválida! Use o formato DD/MM/AAAA.")

\* C20: a form whose date, number and customer are valid and whose value
\* has the currency shape but converts to 0.00 is rejected with the message
\* "Valor deve ser maior que zero!", and every accepted form has a value
\* that converter_para_decimal turns into an amount above zero.
C20_ZeroRejeitado ==
    pc = "validar_formulario_nota" =>
        /\ (CamposPreenchidos /\ DataValida /\ NumeroSoDigitos /\ ValorComForma
              /\ ValorConvertido.c = 0
              => ret = Resultado(FALSE, "Valor deve ser maior que zero!"))
        /\ (ret.ok => ValorConvertido.exc = "" /\ (ValorConvertido.inf \/ ValorConvertido.c > 0))

C20_Witness ==
    /\ pc = "validar_formulario_nota"
    /\ entrada.data = <<"0", "1", "/", "0", "1", "/", "2", "0", "2", "4">>
    /\ entrada.numero = <<"1">>
    /\ entrada.cliente = <<"A", "c", "m", "e">>
    /\ entrada.valor = <<"0", ",", "0", "0">>
    /\ ret = Resultado(FALSE, "Valor deve ser maior que zero!")

\* the optional-field checks, each on its own: an empty field passes
TelefoneAceito == entrada.telefone = <<>> \/ Len(DigitsOf(entrada.telefone)) \in {10, 11}

EmailAceito == entrada.email = <<>> \/ MatchEmail(entrada.email)

CnpjAceito == entrada.cnpj = <<>> \/ Len(DigitsOf(entrada.cnpj)) = 14

\* the message of the first optional-field check that fails, "" when none
PrimeiraFalhaOpcional ==
    IF ~TelefoneAceito THEN "Telefone inválido! Use (00) 00000-0000 ou (00) 0000-0000"
    ELSE IF ~EmailAceito THEN "Email inválido!"
    ELSE IF ~CnpjAceito THEN "CNPJ inválido! Deve ter 14 dígitos."
    ELSE ""

\* C21: every result (ok, msg) of validar_formulario_nota, of
\* validar_formulario_cliente and of the validation the invoice form runs
\* before saving has msg empty exactly when ok is true, and on failure msg
\* is the message of the first rule violated.
C21_MensagemVaziaSeValido ==
    /\ (pc \in {"validar_formulario_nota", "validar_formulario_cliente", "validar_formulario"} =>
           (ret.ok <=> ret.msg = ""))
    /\ (pc = "validar_formulario" /\ ~ret.ok =>
           LET nota_ok == validar_formulario_nota(entrada.data, entrada.numero,
                                                  entrada.cliente, entrada.valor)
           IN ret.msg = IF ~nota_ok.ok THEN nota_ok.msg ELSE PrimeiraFalhaOpcional)

\* C22: validar_formulario_cliente returns the message of the first check
\* that fails in the order name (empty after trimming), phone, email, CNPJ,
\* the last three skipped for an empty field, and (True, "") only when
\* every check passes.
C22_OrdemCliente ==
    pc = "validar_formulario_cliente" =>
        ret = IF Strip(entrada.nome) = <<>> THEN Resultado(FALSE, "O campo Nome é obrigatório!")
              ELSE IF PrimeiraFalhaOpcional # "" THEN Resultado(FALSE, PrimeiraFalhaOpcional)
              ELSE Resultado(TRUE, "")

C22_Witness ==
    /\ pc = "validar_formulario_cliente"
    /\ entrada.nome = <<" ">>
    /\ entrada.telefone = <<"1", "1", "9">>
    /\ entrada.email = <<"a", "@", "b">>
    /\ entrada.cnpj = <<"1", "2", "3">>
    /\ ret = Resultado(FALSE, "O campo Nome é obrigatório!")

\* the date object date(ano, mes, dia), as a result
RetDate(dia, mes, ano) == Returns(ano * 10000 + mes * 100 + dia, <<"d", "a", "t", "e">>)

\* C27: converter_data_para_ordenacao never raises; for a string of length
\* 10 with "/" at positions 2 and 5 whose numeric fields name a real date it
\* returns the date object, and for every other input it returns the
\* original value unchanged.
C27_DataParaOrdenacao ==
    pc = "converter_data_para_ordenacao" =>
        /\ ret.exc = ""
        /\ IF entrada.tipo = "str" /\ DataEstrita(entrada.s)
           THEN ret = RetDate(IntOfDigits(SubSeq(entrada.s, 1, 2)),
                              IntOfDigits(SubSeq(entrada.s, 4, 5)),
                              IntOfDigits(SubSeq(entrada.s, 7, 10)))
           ELSE ret = Original(entrada)

\* C28: whenever the cleaned input holds more than one ",", with or
\* without dots, converter_para_decimal returns 0.00 and formatar_moeda
\* returns the zero display ("0,00", "R$ 0,00").
C28_VariasVirgulas ==
    entrada.tipo = "str" /\ CountChar(Cleaned(entrada), ",") > 1 =>
        /\ (pc = "converter" => ret.exc = "" /\ ret.c = 0)
        /\ (pc = "formatar" => ret.exc = "" /\ ret.txt = <<"0", ",", "0", "0">>)
        /\ (pc = "formatar_simbolo" => ret.exc = "" /\ ret.txt = <<"R", "$", " ", "0", ",", "0", "0">>)

C28_Witness ==
    /\ pc = "converter"
    /\ entrada = StrArg(<<"1", ",", "0", "0", "0", ",", "0", "0", "0">>)
    /\ ret.c = 0

\* C29: a second loss of focus leaves a finalised value field unchanged:
\* aplicar_formatacao_valor_final(aplicar_formatacao_valor_final(x)) is
\* aplicar_formatacao_valor_final(x) for every string x.
C29_Idempotente ==
    [][pc = "foco" /\ pc' = "foco_de_novo" => valor_var' = valor_var]_vars

(***************************************************************************)
(* core/database.py: the table notas.  A row is [id, data_emissao, numero, *)
(* cliente, valor]: id is the AUTOINCREMENT key, numero is UNIQUE, every   *)
(* column is NOT NULL.  NULL is PyNone; valor is the float stored.  An     *)
(* operation gives ok, what the method returns, and the table it leaves: a *)
(* statement that raises sqlite3.IntegrityError is rolled back.            *)
(***************************************************************************)
Nulo(v) == v = PyNone

\* the float handed to the valor column
Valor(r) == [c |-> r.c, inf |-> r.inf]

NovaNota(tabela, data, numero, cliente, valor) ==
    [linhas |-> tabela.linhas \cup
                {[id |-> tabela.seq + 1, data_emissao |-> data, numero |-> numero,
                  cliente |-> cliente, valor |-> valor]},
     seq |-> tabela.seq + 1]

InsertNotaSemUnique(tabela, data, numero, cliente, valor) ==
    IF Nulo(data) \/ Nulo(numero) \/ Nulo(cliente)
    THEN [ok |-> FALSE, tabela |-> tabela]
    ELSE [ok |-> TRUE, tabela |-> NovaNota(tabela, data, numero, cliente, valor)]

insert_nota(tabela, data, numero, cliente, valor) ==
    IF \/ Nulo(data) \/ Nulo(numero) \/ Nulo(cliente)
       \/ \E linha \in tabela.linhas : linha.numero = numero
    THEN [ok |-> FALSE, tabela |-> tabela]
    ELSE [ok |-> TRUE, tabela |-> NovaNota(tabela, data, numero, cliente, valor)]

update_nota(tabela, id_nota, data, numero, cliente, valor) ==
    LET alvo == {linha \in tabela.linhas : linha.id = id_nota}
    IN IF alvo = {} THEN [ok |-> TRUE, tabela |-> tabela]
       ELSE IF \/ Nulo(data) \/ Nulo(numero) \/ Nulo(cliente)
               \/ \E linha \in tabela.linhas \ alvo : linha.numero = numero
       THEN [ok |-> FALSE, tabela |-> tabela]
       ELSE [ok |-> TRUE,
             tabela |-> [tabela EXCEPT !.linhas =
                            (@ \ alvo) \cup {[id |-> id_nota, data_emissao |-> data, numero |-> numero,
                                              cliente |-> cliente, valor |-> valor]}]]

delete_nota(tabela, id_nota) ==
    [tabela EXCEPT !.linhas = {linha \in @ : linha.id # id_nota}]

delete_all_notas(tabela) == [tabela EXCEPT !.linhas = {}]

(***************************************************************************)
(* gui/modules/add_invoice.py, gui/modules/edit_invoice.py: the two saves. *)
(* They give ok, the message shown and the table left.                     *)
(***************************************************************************)
MsgAdicionada == "Nota fiscal adicionada com sucesso!"

MsgNumeroExiste == "Número de nota já existe!"

MsgAtualizada == "Nota fiscal atualizada com sucesso!"

MsgErroAtualizar == "Erro ao atualizar nota fiscal!"

MsgErroSalvar == "Erro ao salvar nota"

salvar_nova_nota(tabela, data, numero, cliente, valor) ==
    LET valor_decimal == converter_para_decimal(StrArg(valor))
        data_sql == formatar_data_sql(StrArg(data))
    IN IF valor_decimal.exc # "" \/ data_sql.exc # ""
       THEN [ok |-> FALSE, msg |-> MsgErroSalvar, tabela |-> tabela]
       ELSE LET success == insert_nota(tabela, data_sql.txt, numero, cliente, Valor(valor_decimal))
            IN [ok |-> success.ok,
                msg |-> IF success.ok THEN MsgAdicionada ELSE MsgNumeroExiste,
                tabela |-> success.tabela]

atualizar_nota_existente(tabela, note_id, data, numero, cliente, valor) ==
    LET valor_decimal == converter_para_decimal(StrArg(valor))
        data_sql == formatar_data_sql(StrArg(data))
    IN IF valor_decimal.exc # "" \/ data_sql.exc # ""
       THEN [ok |-> FALSE, msg |-> MsgErroSalvar, tabela |-> tabela]
       ELSE LET success == update_nota(tabela, note_id, data_sql.txt, numero, cliente,
                                       Valor(valor_decimal))
            IN [ok |-> success.ok,
                msg |-> IF success.ok THEN MsgAtualizada ELSE MsgErroAtualizar,
                tabela |-> success.tabela]

(***************************************************************************)
(* The calls on the table notas.  entrada is the call made, ret its        *)
(* result.  MaxLinhas bounds the AUTOINCREMENT sequence.                   *)
(***************************************************************************)
MaxLinhas == 2

Ids == 1..MaxLinhas

DatasSql == {<<"2", "0", "2", "4", "-", "0", "1", "-", "0", "1">>,
             <<"2", "0", "2", "4", "-", "1", "2", "-", "3", "1">>}

NumerosNota == {<<"1">>, <<"2">>}

DatasNota == {<<"0", "1", "/", "0", "1", "/", "2", "0", "2", "4">>,
              <<"3", "1", "/", "0", "2", "/", "2", "0", "2", "4">>}

Acme == <<"A", "c", "m", "e">>

CemReais == <<"1", "0", "0", ",", "0", "0">>

Chamada(id_nota, data, numero) ==
    [tipo |-> "nota", id |-> id_nota, data |-> data, numero |-> numero]

InitNotas ==
    /\ SemBanco
    /\ entrada = Chamada(SemId, <<>>, <<>>)
    /\ tie = FALSE
    /\ pad_ano = TRUE
    /\ pc = "init"
    /\ ret = Resultado(TRUE, "")
    /\ valor_var = <<>>
    /\ nota = NoNota

InsertNota(data, numero) ==
    /\ notas.seq < MaxLinhas
    /\ LET r == insert_nota(notas, data, numero, Acme, Valor(Returns(10000, <<>>)))
       IN /\ notas' = r.tabela
          /\ ret' = Resultado(r.ok, "")
    /\ entrada' = Chamada(SemId, data, numero)
    /\ pc' = "insert_nota"
    /\ UNCHANGED <<tie, pad_ano, valor_var, nota, clientes, main_menu, cadastro>>

SalvarNovaNota(data, numero) ==
    /\ notas.seq < MaxLinhas
    /\ LET r == salvar_nova_nota(notas, data, numero, Acme, CemReais)
       IN /\ notas' = r.tabela
          /\ ret' = Resultado(r.ok, r.msg)
    /\ entrada' = Chamada(SemId, data, numero)
    /\ pc' = "salvar_nova_nota"
    /\ UNCHANGED <<tie, pad_ano, valor_var, nota, clientes, main_menu, cadastro>>

UpdateNota(id_nota, data, numero) ==
    /\ LET r == update_nota(notas, id_nota, data, numero, Acme, Valor(Returns(20000, <<>>)))
       IN /\ notas' = r.tabela
          /\ ret' = Resultado(r.ok, "")
    /\ entrada' = Chamada(id_nota, data, numero)
    /\ pc' = "update_nota"
    /\ UNCHANGED <<tie, pad_ano, valor_var, nota, clientes, main_menu, cadastro>>

DeleteNota(id_nota) ==
    /\ notas' = delete_nota(notas, id_nota)
    /\ ret' = Resultado(TRUE, "")
    /\ entrada' = Chamada(id_nota, <<>>, <<>>)
    /\ pc' = "delete_nota"
    /\ UNCHANGED <<tie, pad_ano, valor_var, nota, clientes, main_menu, cadastro>>

DeleteAllNotas ==
    /\ notas' = delete_all_notas(notas)
    /\ ret' = Resultado(TRUE, "")
    /\ entrada' = Chamada(SemId, <<>>, <<>>)
    /\ pc' = "delete_all_notas"
    /\ UNCHANGED <<tie, pad_ano, valor_var, nota, clientes, main_menu, cadastro>>

NextNotas ==
    \/ \E data \in DatasSql, numero \in NumerosNota : InsertNota(data, numero)
    \/ \E data \in DatasNota, numero \in NumerosNota : SalvarNovaNota(data, numero)
    \/ \E id_nota \in Ids, data \in DatasSql, numero \in NumerosNota : UpdateNota(id_nota, data, numero)
    \/ \E id_nota \in Ids : DeleteNota(id_nota)
    \/ DeleteAllNotas

SpecNotas == InitNotas /\ [][NextNotas]_vars

NumeroGuardado(numero) == \E linha \in notas.linhas : linha.numero = numero

\* the call made would store a second invoice with a number already stored
Duplicaria ==
    \/ pc' = "insert_nota" /\ ~Nulo(entrada'.data) /\ NumeroGuardado(entrada'.numero)
    \/ /\ pc' = "update_nota"
       /\ ~Nulo(entrada'.data)
       /\ \E linha \in notas.linhas : linha.id = entrada'.id
       /\ \E linha \in notas.linhas : linha.id # entrada'.id /\ linha.numero = entrada'.numero

\* C24: after any sequence of insert_nota, update_nota, delete_nota and
\* delete_all_notas no two stored invoices have the same number, and an
\* insert_nota or update_nota that would store a number twice returns False
\* and leaves every stored invoice as it was.
C24_NumeroUnico ==
    [][/\ \A a, b \in notas'.linhas : a.numero = b.numero => a = b
       /\ (Duplicaria => ~ret'.ok /\ notas' = notas)]_vars

C24_Witness ==
    /\ pc = "update_nota"
    /\ ~ret.ok
    /\ ~Nulo(entrada.data)
    /\ Cardinality(notas.linhas) = 2
    /\ \E linha \in notas.linhas : linha.id # entrada.id /\ linha.numero = entrada.numero

\* C25: insert_nota returns False only when an invoice with the number
\* given is already stored, also when it is salvar_nova_nota that calls it,
\* with whatever date: the message "Número de nota já existe!" is shown only
\* then.
C25_FalseSoSeExiste ==
    [][pc' \in {"insert_nota", "salvar_nova_nota"} /\ ~ret'.ok
         => NumeroGuardado(entrada'.numero)]_vars

(***************************************************************************)
(* core/database.py: the table clientes.  A row is [id, nome, cnpj,        *)
(* ativo]: nome is NOT NULL and UNIQUE over every row, active or not;      *)
(* delete_cliente and delete_all_clientes only clear ativo.                *)
(***************************************************************************)
NovoCliente(tabela, nome, cnpj) ==
    [linhas |-> tabela.linhas \cup
                {[id |-> tabela.seq + 1, nome |-> nome, cnpj |-> cnpj, ativo |-> TRUE]},
     seq |-> tabela.seq + 1]

insert_cliente(tabela, nome, cnpj) ==
    IF Nulo(nome) \/ \E linha \in tabela.linhas : linha.nome = nome
    THEN [ok |-> FALSE, tabela |-> tabela]
    ELSE [ok |-> TRUE, tabela |-> NovoCliente(tabela, nome, cnpj)]

update_cliente(tabela, id_cliente, nome, cnpj) ==
    LET alvo == {linha \in tabela.linhas : linha.id = id_cliente}
    IN IF alvo = {} THEN [ok |-> TRUE, tabela |-> tabela]
       ELSE IF Nulo(nome) \/ \E linha \in tabela.linhas \ alvo : linha.nome = nome
       THEN [ok |-> FALSE, tabela |-> tabela]
       ELSE [ok |-> TRUE,
             tabela |-> [tabela EXCEPT !.linhas =
                            (@ \ alvo) \cup {[linha EXCEPT !.nome = nome, !.cnpj = cnpj] : linha \in alvo}]]

delete_cliente(tabela, id_cliente) ==
    [tabela EXCEPT !.linhas =
        {IF linha.id = id_cliente THEN [linha EXCEPT !.ativo = FALSE] ELSE linha : linha \in @}]

delete_all_clientes(tabela) ==
    [tabela EXCEPT !.linhas = {[linha EXCEPT !.ativo = FALSE] : linha \in @}]

cliente_existe(tabela, nome, cnpj) ==
    IF cnpj # <<>>
    THEN \E linha \in tabela.linhas : (linha.nome = nome \/ linha.cnpj = cnpj) /\ linha.ativo
    ELSE \E linha \in tabela.linhas : linha.nome = nome /\ linha.ativo

\* SELECT ... FROM clientes WHERE id = ? AND ativo = 1: the rows found
get_cliente_por_id(tabela, id_cliente) ==
    {linha \in tabela.linhas : linha.id = id_cliente /\ linha.ativo}

(***************************************************************************)
(* The calls on the table clientes.                                        *)
(***************************************************************************)
NomesCliente == {Acme, <<"B", "o", "b">>}

CnpjsCliente == {<<>>, <<"1", "2", "3", "4", "5", "6", "7", "8", "0", "0", "0", "1", "9", "0">>}

ChamadaCliente(id_cliente, nome, cnpj) ==
    [tipo |-> "cliente", id |-> id_cliente, nome |-> nome, cnpj |-> cnpj]

InitClientes ==
    /\ SemBanco
    /\ entrada = ChamadaCliente(SemId, <<>>, <<>>)
    /\ tie = FALSE
    /\ pad_ano = TRUE
    /\ pc = "init"
    /\ ret = Resultado(TRUE, "")
    /\ valor_var = <<>>
    /\ nota = NoNota

InsertCliente(nome, cnpj) ==
    /\ clientes.seq < MaxLinhas
    /\ LET r == insert_cliente(clientes, nome, cnpj)
       IN /\ clientes' = r.tabela
          /\ ret' = Resultado(r.ok, "")
    /\ entrada' = ChamadaCliente(SemId, nome, cnpj)
    /\ pc' = "insert_cliente"
    /\ UNCHANGED <<tie, pad_ano, valor_var, nota, notas, main_menu, cadastro>>

UpdateCliente(id_cliente, nome, cnpj) ==
    /\ LET r == update_cliente(clientes, id_cliente, nome, cnpj)
       IN /\ clientes' = r.tabela
          /\ ret' = Resultado(r.ok, "")
    /\ entrada' = ChamadaCliente(id_cliente, nome, cnpj)
    /\ pc' = "update_cliente"
    /\ UNCHANGED <<tie, pad_ano, valor_var, nota, notas, main_menu, cadastro>>

DeleteCliente(id_cliente) ==
    /\ clientes' = delete_cliente(clientes, id_cliente)
    /\ ret' = Resultado(TRUE, "")
    /\ entrada' = ChamadaCliente(id_cliente, <<>>, <<>>)
    /\ pc' = "delete_cliente"
    /\ UNCHANGED <<tie, pad_ano, valor_var, nota, notas, main_menu, cadastro>>

DeleteAllClientes ==
    /\ clientes' = delete_all_clientes(clientes)
    /\ ret' = Resultado(TRUE, "")
    /\ entrada' = ChamadaCliente(SemId, <<>>, <<>>)
    /\ pc' = "delete_all_clientes"
    /\ UNCHANGED <<tie, pad_ano, valor_var, nota, notas, main_menu, cadastro>>

NextClientes ==
    \/ \E nome \in NomesCliente, cnpj \in CnpjsCliente : InsertCliente(nome, cnpj)
    \/ \E id_cliente \in Ids, nome \in NomesCliente, cnpj \in CnpjsCliente :
           UpdateCliente(id_cliente, nome, cnpj)
    \/ \E id_cliente \in Ids : DeleteCliente(id_cliente)
    \/ DeleteAllClientes

SpecClientes == InitClientes /\ [][NextClientes]_vars

\* C26: in every state reached by insert_cliente, update_cliente,
\* delete_cliente and delete_all_clientes, insert_cliente(nome) returns
\* False exactly when cliente_existe(nome) is True, that is when an active
\* customer has that name; after a customer is deleted its name can be
\* registered again.
C26_FalseSeExiste ==
    [][pc' = "insert_cliente" => (~ret'.ok <=> cliente_existe(clientes, entrada'.nome, <<>>))]_vars

(***************************************************************************)
(* gui/modules/main_menu.py and gui/modules/cadastro_cliente.py: the edit  *)
(* mode of the invoice form and of the customer form.  The controller      *)
(* shows one of the two frames; entrada is the gesture of the user on it   *)
(* (the frame and the texts of the fields), ret what the handler reported. *)
(* The table of a frame lists the stored rows (the active ones, for the    *)
(* customers), so a selection is a set of their ids.                       *)
(***************************************************************************)
Gesto(frame, campos) == [tipo |-> "gesto", frame |-> frame, campos |-> campos]

\* SELECT ... FROM notas WHERE id = ?: the rows found
get_nota_por_id(tabela, id_nota) == {linha \in tabela.linhas : linha.id = id_nota}

\* the methods of InvoiceEditManager, the edit_manager of MainMenu
MetodosEditManager ==
    {"load_invoice_for_editing", "update_existing_invoice", "cancel_editing",
     "clear_fields", "validate_editing"}

\* MainMenu.clear_fields
clear_fields(m) == [m EXCEPT !.edit_mode = FALSE, !.editing_id = SemId]

\* MainMenu.refresh_data
refresh_data(m) == clear_fields([m EXCEPT !.selected_ids = {}])

\* CadastroCliente.limpar_campos
limpar_campos(c) == [c EXCEPT !.modo_edicao = FALSE, !.editando_id = SemId]

\* CadastroCliente.refresh_data
refresh_data_clientes(c) ==
    limpar_campos([c EXCEPT !.selected_ids = {}, !.modo_edicao = FALSE, !.editando_id = SemId])

DatasGui == DatasNota \cup {<<"0", "1", "/", "0", "1", "/", "0", "9", "9", "9">>}

ValoresGui == {CemReais, <<"0", ",", "0", "0">>}

NomesGui == NomesCliente \cup {<<" ">>}

InitGui ==
    /\ notas = TabelaVazia
    /\ clientes = TabelaVazia
    /\ main_menu = MainMenuInicial
    /\ cadastro = CadastroInicial
    /\ entrada \in {Gesto("MainMenu", <<>>), Gesto("CadastroCliente", <<>>)}
    /\ tie = FALSE
    /\ pad_ano \in BOOLEAN
    /\ pc = "init"
    /\ ret = Resultado(TRUE, "")
    /\ valor_var = <<>>
    /\ nota = NoNota

\* MainMenu.on_table_select
OnTableSelect(ids) ==
    /\ entrada.frame = "MainMenu"
    /\ ids \subseteq {linha.id : linha \in notas.linhas}
    /\ main_menu' = [main_menu EXCEPT !.selected_ids = ids]
    /\ entrada' = Gesto("MainMenu", <<>>)
    /\ ret' = Resultado(TRUE, "")
    /\ pc' = "on_table_select"
    /\ UNCHANGED <<tie, pad_ano, valor_var, nota, notas, clientes, cadastro>>

\* MainMenu.save_invoice
SaveInvoice(date, number, value) ==
    /\ entrada.frame = "MainMenu"
    /\ main_menu.edit_mode \/ notas.seq < MaxLinhas
    /\ LET data == [date |-> Strip(date), number |-> Strip(number), customer |-> Strip(Acme),
                    value |-> Strip(value)]
           valid == validar_formulario(data.date, data.number, data.customer, data.value,
                                       <<>>, <<>>, <<>>)
       IN IF ~valid.ok
          THEN /\ ret' = valid
               /\ UNCHANGED <<notas, main_menu>>
          ELSE IF main_menu.edit_mode /\ main_menu.editing_id # SemId
          THEN LET success == atualizar_nota_existente(notas, main_menu.editing_id, data.date,
                                                       data.number, data.customer, data.value)
               IN /\ notas' = success.tabela
                  /\ ret' = Resultado(success.ok, success.msg)
                  /\ main_menu' = IF success.ok
                                  THEN refresh_data([main_menu EXCEPT !.edit_mode = FALSE,
                                                                      !.editing_id = SemId])
                                  ELSE main_menu
          ELSE LET success == salvar_nova_nota(notas, data.date, data.number, data.customer,
                                               data.value)
               IN /\ notas' = success.tabela
                  /\ ret' = Resultado(success.ok, success.msg)
                  /\ main_menu' = IF success.ok THEN refresh_data(main_menu) ELSE main_menu
    /\ entrada' = Gesto("MainMenu", <<date, number, value>>)
    /\ pc' = "save_invoice"
    /\ UNCHANGED <<tie, pad_ano, valor_var, nota, clientes, cadastro>>

\* MainMenu.edit_invoice
EditInvoice ==
    /\ entrada.frame = "MainMenu"
    /\ IF Cardinality(main_menu.selected_ids) # 1
       THEN /\ ret' = Resultado(FALSE, "Selecione exatamente uma nota para editar.")
            /\ main_menu' = main_menu
       ELSE LET invoice_id == CHOOSE id \in main_menu.selected_ids : TRUE
                success == get_nota_por_id(notas, invoice_id) # {}
            IN /\ ret' = Resultado(success, IF success THEN "" ELSE "Nota fiscal não encontrada!")
               /\ main_menu' = IF success
                               THEN [main_menu EXCEPT !.edit_mode = TRUE, !.editing_id = invoice_id]
                               ELSE main_menu
    /\ entrada' = Gesto("MainMenu", <<>>)
    /\ pc' = "edit_invoice"
    /\ UNCHANGED <<tie, pad_ano, valor_var, nota, notas, clientes, cadastro>>

\* MainMenu.cancel_edit: the call self.edit_manager.cancel_edit comes first
CancelEdit ==
    /\ entrada.frame = "MainMenu"
    /\ IF "cancel_edit" \in MetodosEditManager
       THEN /\ main_menu' = [main_menu EXCEPT !.edit_mode = FALSE, !.editing_id = SemId]
            /\ ret' = Resultado(TRUE, "Edição cancelada. Campos limpos.")
       ELSE /\ main_menu' = main_menu
            /\ ret' = [Resultado(FALSE, "") EXCEPT !.exc = "AttributeError"]
    /\ entrada' = Gesto("MainMenu", <<>>)
    /\ pc' = "cancel_edit"
    /\ UNCHANGED <<tie, pad_ano, valor_var, nota, notas, clientes, cadastro>>

\* MainMenu.clear_fields
ClearFields ==
    /\ entrada.frame = "MainMenu"
    /\ main_menu' = clear_fields(main_menu)
    /\ entrada' = Gesto("MainMenu", <<>>)
    /\ ret' = Resultado(TRUE, "")
    /\ pc' = "clear_fields"
    /\ UNCHANGED <<tie, pad_ano, valor_var, nota, notas, clientes, cadastro>>

\* MainMenu.handle_delete_notes; escolha is the button of the dialog of
\* InvoiceDelete
HandleDeleteNotes(escolha) ==
    /\ entrada.frame = "MainMenu"
    /\ IF notas.linhas = {}
       THEN /\ ret' = Resultado(FALSE, "Nenhuma nota encontrada no sistema!")
            /\ UNCHANGED <<notas, main_menu>>
       ELSE IF main_menu.selected_ids = {}
       THEN /\ ret' = Resultado(FALSE, "Nenhuma nota selecionada!")
            /\ UNCHANGED <<notas, main_menu>>
       ELSE /\ notas' = CASE escolha = "selecionadas" ->
                               [notas EXCEPT !.linhas =
                                   {linha \in @ : linha.id \notin main_menu.selected_ids}]
                          [] escolha = "todas" -> delete_all_notas(notas)
                          [] OTHER -> notas
            /\ main_menu' = refresh_data(main_menu)
            /\ ret' = Resultado(TRUE, "")
    /\ entrada' = Gesto("MainMenu", <<>>)
    /\ pc' = "handle_delete_notes"
    /\ UNCHANGED <<tie, pad_ano, valor_var, nota, clientes, cadastro>>

\* MainMenu.refresh_data
RefreshData ==
    /\ entrada.frame = "MainMenu"
    /\ main_menu' = refresh_data(main_menu)
    /\ entrada' = Gesto("MainMenu", <<>>)
    /\ ret' = Resultado(TRUE, "")
    /\ pc' = "refresh_data"
    /\ UNCHANGED <<tie, pad_ano, valor_var, nota, notas, clientes, cadastro>>

\* CadastroCliente.on_table_select
OnTableSelectClientes(ids) ==
    /\ entrada.frame = "CadastroCliente"
    /\ ids \subseteq {linha.id : linha \in {l \in clientes.linhas : l.ativo}}
    /\ cadastro' = [cadastro EXCEPT !.selected_ids = ids]
    /\ entrada' = Gesto("CadastroCliente", <<>>)
    /\ ret' = Resultado(TRUE, "")
    /\ pc' = "on_table_select_clientes"
    /\ UNCHANGED <<tie, pad_ano, valor_var, nota, notas, clientes, main_menu>>

\* CadastroCliente.salvar_cliente
SalvarCliente(nome_var, cnpj_var) ==
    /\ entrada.frame = "CadastroCliente"
    /\ cadastro.modo_edicao \/ clientes.seq < MaxLinhas
    /\ LET valido == validar_formulario_cliente(Strip(nome_var), <<>>, <<>>, Strip(cnpj_var))
           nome == Strip(nome_var)
           cnpj == Strip(cnpj_var)
       IN IF ~valido.ok
          THEN /\ ret' = valido
               /\ UNCHANGED <<clientes, cadastro>>
          ELSE IF cadastro.modo_edicao /\ cadastro.editando_id # SemId
          THEN LET success == update_cliente(clientes, cadastro.editando_id, nome, cnpj)
               IN /\ clientes' = success.tabela
                  /\ ret' = Resultado(success.ok,
                                      IF success.ok THEN "Cliente atualizado com sucesso!"
                                      ELSE "Erro ao atualizar cliente! Verifique se o nome já existe.")
                  /\ cadastro' = refresh_data_clientes(
                                     IF success.ok
                                     THEN [cadastro EXCEPT !.modo_edicao = FALSE, !.editando_id = SemId]
                                     ELSE cadastro)
          ELSE LET success == insert_cliente(clientes, nome, cnpj)
               IN /\ clientes' = success.tabela
                  /\ ret' = Resultado(success.ok,
                                      IF success.ok THEN "Cliente cadastrado com sucesso!"
                                      ELSE "Já existe um cliente com este nome!")
                  /\ cadastro' = refresh_data_clientes(cadastro)
    /\ entrada' = Gesto("CadastroCliente", <<nome_var, cnpj_var>>)
    /\ pc' = "salvar_cliente"
    /\ UNCHANGED <<tie, pad_ano, valor_var, nota, notas, main_menu>>

\* CadastroCliente.editar_cliente
EditarCliente ==
    /\ entrada.frame = "CadastroCliente"
    /\ IF Cardinality(cadastro.selected_ids) # 1
       THEN /\ ret' = Resultado(FALSE, "Selecione exatamente um cliente para edição!")
            /\ cadastro' = cadastro
       ELSE LET cliente_id == CHOOSE id \in cadastro.selected_ids : TRUE
                cliente == get_cliente_por_id(clientes, cliente_id)
            IN /\ ret' = Resultado(cliente # {}, "")
               /\ cadastro' = IF cliente # {}
                              THEN [cadastro EXCEPT !.modo_edicao = TRUE, !.editando_id = cliente_id]
                              ELSE cadastro
    /\ entrada' = Gesto("CadastroCliente", <<>>)
    /\ pc' = "editar_cliente"
    /\ UNCHANGED <<tie, pad_ano, valor_var, nota, notas, clientes, main_menu>>

\* CadastroCliente.cancelar_edicao
CancelarEdicao ==
    /\ entrada.frame = "CadastroCliente"
    /\ cadastro' = limpar_campos([cadastro EXCEPT !.modo_edicao = FALSE, !.editando_id = SemId])
    /\ entrada' = Gesto("CadastroCliente", <<>>)
    /\ ret' = Resultado(TRUE, "Edição cancelada. Campos limpos.")
    /\ pc' = "cancelar_edicao"
    /\ UNCHANGED <<tie, pad_ano, valor_var, nota, notas, clientes, main_menu>>

\* CadastroCliente.limpar_campos
LimparCampos ==
    /\ entrada.frame = "CadastroCliente"
    /\ cadastro' = limpar_campos(cadastro)
    /\ entrada' = Gesto("CadastroCliente", <<>>)
    /\ ret' = Resultado(TRUE, "")
    /\ pc' = "limpar_campos"
    /\ UNCHANGED <<tie, pad_ano, valor_var, nota, notas, clientes, main_menu>>

\* CadastroCliente.excluir_clientes_choice with _delete_selected_confirm or
\* _confirm_and_delete_all; todos is the button of the dialog
ExcluirClientes(todos) ==
    /\ entrada.frame = "CadastroCliente"
    /\ cadastro.selected_ids # {}
    /\ clientes' = IF todos THEN delete_all_clientes(clientes)
                   ELSE [clientes EXCEPT !.linhas =
                            {IF linha.id \in cadastro.selected_ids
                             THEN [linha EXCEPT !.ativo = FALSE] ELSE linha : linha \in @}]
    /\ cadastro' = refresh_data_clientes(cadastro)
    /\ entrada' = Gesto("CadastroCliente", <<>>)
    /\ ret' = Resultado(TRUE, "")
    /\ pc' = "excluir_clientes"
    /\ UNCHANGED <<tie, pad_ano, valor_var, nota, notas, main_menu>>

\* CadastroCliente.refresh_data
RefreshDataClientes ==
    /\ entrada.frame = "CadastroCliente"
    /\ cadastro' = refresh_data_clientes(cadastro)
    /\ entrada' = Gesto("CadastroCliente", <<>>)
    /\ ret' = Resultado(TRUE, "")
    /\ pc' = "refresh_data_clientes"
    /\ UNCHANGED <<tie, pad_ano, valor_var, nota, notas, clientes, main_menu>>

NextGui ==
    \/ \E ids \in SUBSET Ids : OnTableSelect(ids)
    \/ \E date \in DatasGui, number \in NumerosNota, value \in ValoresGui :
           SaveInvoice(date, number, value)
    \/ EditInvoice
    \/ CancelEdit
    \/ ClearFields
    \/ \E escolha \in {"selecionadas", "todas", "cancelar"} : HandleDeleteNotes(escolha)
    \/ RefreshData
    \/ \E ids \in SUBSET Ids : OnTableSelectClientes(ids)
    \/ \E nome_var \in NomesGui, cnpj_var \in CnpjsCliente : SalvarCliente(nome_var, cnpj_var)
    \/ EditarCliente
    \/ CancelarEdicao
    \/ LimparCampos
    \/ \E todos \in BOOLEAN : ExcluirClientes(todos)
    \/ RefreshDataClientes

SpecGui == InitGui /\ [][NextGui]_vars

\* C23: after any sequence of saves of the invoice form, new or of an
\* invoice under edit, every stored invoice has a valor above zero stored as
\* a number, a numero made of digits only, and a data_emissao that is not
\* NULL and has the form YYYY-MM-DD.
C23_NotaGuardada ==
    \A linha \in notas.linhas :
        /\ linha.valor.inf \/ linha.valor.c > 0
        /\ linha.numero # <<>> /\ IsDigits(linha.numero)
        /\ ~Nulo(linha.data_emissao)
        /\ FormaSql(linha.data_emissao)

\* the handlers after which the claim says no record is under edit
Saidas ==
    {"cancel_edit", "clear_fields", "refresh_data",
     "cancelar_edicao", "limpar_campos", "refresh_data_clientes"}

\* C30: in both forms the edit-mode flag is true exactly when an id is under
\* edit; edit mode is entered only by the edit handler loading the one
\* selected record, and no record is under edit after an update that
\* succeeded, a cancel, a clear-fields or a refresh.
C30_ModoEdicao ==
    [][/\ main_menu'.edit_mode <=> main_menu'.editing_id # SemId
       /\ cadastro'.modo_edicao <=> cadastro'.editando_id # SemId
       /\ (~main_menu.edit_mode /\ main_menu'.edit_mode =>
              /\ pc' = "edit_invoice"
              /\ main_menu.selected_ids = {main_menu'.editing_id}
              /\ get_nota_por_id(notas, main_menu'.editing_id) # {})
       /\ (~cadastro.modo_edicao /\ cadastro'.modo_edicao =>
              /\ pc' = "editar_cliente"
              /\ cadastro.selected_ids = {cadastro'.editando_id}
              /\ get_cliente_por_id(clientes, cadastro'.editando_id) # {})
       /\ (pc' \in Saidas \/ (pc' \in {"save_invoice", "salvar_cliente"} /\ ret'.ok) =>
              ~main_menu'.edit_mode /\ ~cadastro'.modo_edicao)]_vars

====
